---- MODULE Spec2Model ----
(***************************************************************************)
(* A model of itsjustintv, the Twitch EventSub webhook bridge:             *)
(*   - the POST /twitch request handler (signature check, classification,  *)
(*     dedup cache, enrichment with tag filter, dispatch, file sink),      *)
(*   - the enricher's calls to the upstream API and what they answer,      *)
(*   - the retry manager (AddRequest and its backoff in the width of a     *)
(*     time.Duration, the 30 s tick, retryRequest),                        *)
(*   - the configuration reload (Watcher.reloadConfig and                  *)
(*     Server.handleConfigReload),                                         *)
(*   - Server.Start: startup order, listener, background goroutines,       *)
(*     shutdown, the retry state file and the cache file as the JSON       *)
(*     documents saveState and saveCache write,                            *)
(*   - the subscription manager (syncSubscriptions, the callback URL),     *)
(*   - the Twitch client's token (ensureValidToken),                       *)
(*   - on their own: the webhook Validator (a signature generated and      *)
(*     validated), the cache manager's methods statement by statement      *)
(*     under its RWMutex, the output writer with small max_lines, and      *)
(*     Watcher.watchLoop with its debounce timer (units of 100 ms).        *)
(*                                                                         *)
(* Time.  The code only ever compares a stored instant t with the clock,   *)
(* through now.After(t) and now.Before(t).  A stored instant, in memory or *)
(* in a file, is therefore kept relative to                                *)
(* the clock, as t - now; ClockTick lets one time unit pass by decrementing*)
(* every stored instant, and an instant that is already in the past        *)
(* saturates at Past.  One time unit is one hour.                          *)
(***************************************************************************)
EXTENDS Integers, Sequences, FiniteSets, Bags, TLC

\* ------------------------------------------------------------------ bounds

\* Number of requests the environment sends to POST /twitch.
MaxRequests == 2

\* Number of changes of the configuration file.
MaxReloads == 2

\* The number of syncSubscriptions calls in one run.
MaxSyncs == 3

\* ------------------------------------------------------- program constants

\* cache.NewManager(logger, "data/cache.json", 2*time.Hour)
TTL == 2

\* DefaultConfig: Output.MaxLines
DefaultMaxLines == 1000

\* An instant that lies in the past (now.After(t) holds).
Past == -1

Nil == "nil"

Handlers == {"h1", "h2"}

\* ------------------------------------------------------------------ strings

\* strings.ToLower on the strings that occur in the model.
ToLower(s) ==
    CASE s = "Gaming" -> "gaming"
      [] s = "GAMING" -> "gaming"
      [] s = "Gaming Live" -> "gaming live"
      [] s = "Music" -> "music"
      [] s = "BOB" -> "bob"
      [] s = "Alice" -> "alice"
      [] OTHER -> s

\* strings.EqualFold
EqualFold(a, b) == ToLower(a) = ToLower(b)

Min(a, b) == IF a < b THEN a ELSE b

\* ------------------------------------------------------------ configuration

\* config.StreamerConfig (the fields the pipeline reads)
StreamerAlice ==
    [UserID |-> "1", Login |-> "alice", TargetWebhookURL |-> "http://a/hook",
     TargetWebhookSecret |-> "alice_secret", TargetWebhookHeader |-> "X-Alice-Signature",
     TargetWebhookHashing |-> "SHA-512",
     TagFilter |-> <<"Gaming">>]

\* A streamer given by login only whose user id was not resolved at startup
\* (ResolveStreamerUserIDs only warns), without a target of its own.
StreamerBob ==
    [UserID |-> "", Login |-> "bob", TargetWebhookURL |-> "",
     TargetWebhookSecret |-> "", TargetWebhookHeader |-> "", TargetWebhookHashing |-> "",
     TagFilter |-> <<>>]

StreamerCarol ==
    [UserID |-> "3", Login |-> "carol", TargetWebhookURL |-> "http://c/hook",
     TargetWebhookSecret |-> "carol_secret", TargetWebhookHeader |-> "",
     TargetWebhookHashing |-> "",
     TagFilter |-> <<>>]

\* carol with a secret of her own but without a target URL
StreamerCarolNoTarget == [StreamerCarol EXCEPT !.TargetWebhookURL = ""]

\* carol with a target URL that has no scheme and no host
StreamerCarolInvalidURL == [StreamerCarol EXCEPT !.TargetWebhookURL = "invalid-url"]

\* config.ServerConfig: listen_addr, port, external_domain, tls
ServerConfig(listenAddr, port, externalDomain, tlsEnabled, tlsDomains) ==
    [ListenAddr |-> listenAddr, Port |-> port, ExternalDomain |-> externalDomain,
     TLS |-> [Enabled |-> tlsEnabled, Domains |-> tlsDomains]]

\* The [server] section of each version of the configuration file.
ServerOf(name) ==
    CASE name = "c0" -> ServerConfig("0.0.0.0", 8080, "ext.example", FALSE, << >>)
      [] name = "c1" -> ServerConfig("0.0.0.0", 443, "", TRUE,
                                     <<"tls.example", "alt.example">>)
      [] name = "c2" -> ServerConfig("0.0.0.0", 8080, "", FALSE, << >>)
      [] name = "c3" -> ServerConfig("", 80, "ext.example", TRUE, <<"tls.example">>)
      [] name = "c4" -> ServerConfig("host.example", 443, "", FALSE, << >>)
      [] OTHER -> ServerConfig("host.example", 80, "", FALSE, << >>)

\* twitch.incoming_webhook_url of each version of the configuration file.  A URL
\* is kept as its pieces <<scheme, host, port, path>>; << >> is the empty string.
IncomingWebhookURLOf(name) ==
    IF name = "c0" THEN <<"https", "hook.example", "", "/in/twitch">> ELSE << >>

\* retry.max_attempts of a policy that keeps trying for days.
ManyAttempts == 24

\* config.RetryConfig: max_attempts, initial_delay, max_delay, backoff_factor
RetryPolicy(maxAttempts) ==
    [MaxAttempts |-> maxAttempts, InitialDelay |-> 1, MaxDelay |-> 3,
     BackoffFactor |-> 2]

\* config.Config: a snapshot.  Streamers is the map streamer key -> StreamerConfig.
Snapshot(name, streamers, globalEnabled, maxAttempts) ==
    [Name |-> name,
     Streamers |-> streamers,
     Server |-> ServerOf(name),
     Twitch |-> [ClientID |-> "client_id", ClientSecret |-> "client_secret",
                 WebhookSecret |-> "twitch_secret",
                 IncomingWebhookURL |-> IncomingWebhookURLOf(name)],
     GlobalWebhook |-> [Enabled |-> globalEnabled, URL |-> "http://global/hook",
                        TargetWebhookSecret |-> "global_secret",
                        TargetWebhookHeader |-> "X-Hub-Signature-256",
                        TargetWebhookHashing |-> "SHA-256"],
     Retry |-> RetryPolicy(maxAttempts),
     Output |-> [Enabled |-> TRUE, MaxLines |-> DefaultMaxLines]]

\* The snapshot loaded at startup.
Config0 ==
    Snapshot("c0", [k \in {"alice", "bob"} |->
                      IF k = "alice" THEN StreamerAlice ELSE StreamerBob],
             TRUE, 3)

\* A later version of the file: bob removed, carol added.
Config1 ==
    Snapshot("c1", [k \in {"alice", "carol"} |->
                      IF k = "alice" THEN StreamerAlice ELSE StreamerCarol],
             TRUE, 3)

\* A later version of the file: no global fallback, fewer attempts.
Config2 ==
    Snapshot("c2", [k \in {"alice", "bob"} |->
                      IF k = "alice" THEN StreamerAlice ELSE StreamerBob],
             FALSE, 2)

\* alice, bob, and carol without a target of her own, with the global fallback.
Config3 ==
    Snapshot("c3", [k \in {"alice", "bob", "carol"} |->
                      CASE k = "alice" -> StreamerAlice
                        [] k = "bob" -> StreamerBob
                        [] OTHER -> StreamerCarolNoTarget],
             TRUE, 3)

\* alice, and carol without a target of her own, without the global fallback.
Config4 ==
    Snapshot("c4", [k \in {"alice", "carol"} |->
                      IF k = "alice" THEN StreamerAlice ELSE StreamerCarolNoTarget],
             FALSE, 3)

\* alice, and carol with a target URL no request can be sent to.
Config5 ==
    Snapshot("c5", [k \in {"alice", "carol"} |->
                      IF k = "alice" THEN StreamerAlice ELSE StreamerCarolInvalidURL],
             TRUE, 3)

\* alice and carol, with a retry policy of many attempts.
Config6 ==
    Snapshot("c6", [k \in {"alice", "carol"} |->
                      IF k = "alice" THEN StreamerAlice ELSE StreamerCarol],
             TRUE, ManyAttempts)

\* A streamer section that gives neither user_id nor login.
StreamerNobody == [StreamerBob EXCEPT !.Login = ""]

\* A version of the file with alice and the streamer without user_id and login.
Config7 ==
    Snapshot("c7", [k \in {"alice", "nobody"} |->
                      IF k = "alice" THEN StreamerAlice ELSE StreamerNobody],
             TRUE, 3)

\* A version of the file that validateConfig rejects: retry.max_attempts is 0.
ConfigBad ==
    Snapshot("bad", [k \in {"alice"} |-> StreamerAlice], TRUE, 0)

\* A validation that accepts every configuration.
validateConfigAcceptAll(config) == TRUE

\* validateConfig: TRUE when it returns nil.
validateConfig(config) ==
    /\ config.Twitch.ClientID # ""
    /\ config.Twitch.ClientSecret # ""
    /\ config.Twitch.WebhookSecret # ""
    /\ config.Server.Port > 0 /\ config.Server.Port <= 65535
    /\ config.Server.TLS.Enabled => Len(config.Server.TLS.Domains) > 0
    /\ config.Retry.MaxAttempts > 0
    /\ config.Retry.BackoffFactor > 1

\* --------------------------------------------------------------- signatures

\* hmac.New(hash, key); mac.Write(msg); mac.Sum(nil): an ideal MAC, which is
\* determined by (algorithm, key, message) and collides for no two of them.
\* A message is the sequence of the byte strings written to the MAC.
Hmac(alg, key, msg) == [alg |-> alg, key |-> key, msg |-> msg]

\* hex.EncodeToString
HexEncode(digest) == [hex |-> digest]

\* A header value "<prefix><hex digits>".
SigString(prefix, hexdigits) == [prefix |-> prefix, digits |-> hexdigits]

\* The hex digits of a header value that carries no digest ("", "invalid_signature").
NoDigits(text) == HexEncode(Hmac("none", text, <<>>))

\* strings.TrimPrefix(signature, prefix)
TrimPrefix(signature, prefix) ==
    IF signature.prefix = prefix THEN [signature EXCEPT !.prefix = ""] ELSE signature

\* A validator that compares the header value as it came.
ValidateSignatureUntrimmed(secret, payload, signature) ==
    IF secret = "" THEN FALSE
    ELSE signature = SigString("", HexEncode(Hmac("sha256", secret, payload)))

\* Validator.ValidateSignature(payload, signature) of a validator with this
\* secret: TRUE when it returns nil.
ValidateSignature(secret, payload, signature) ==
    IF secret = "" THEN FALSE
    ELSE LET trimmed == TrimPrefix(signature, "sha256=")
             expectedSignature == SigString("", HexEncode(Hmac("sha256", secret, payload)))
         IN  trimmed = expectedSignature

\* Validator.GenerateSignature(payload)
GenerateSignature(secret, payload) ==
    IF secret = "" THEN SigString("", NoDigits(""))
    ELSE SigString("sha256=", HexEncode(Hmac("sha256", secret, payload)))

\* The signature Twitch sends: HMAC-SHA256 over message id, timestamp and body.
TwitchSignature(secret, messageID, timestamp, body) ==
    SigString("sha256=", HexEncode(Hmac("sha256", secret, <<messageID, timestamp, body>>)))

\* ------------------------------------------------------- events and requests

\* twitch.StreamOnlineEvent; StartedAt is [sec, nsec].
StreamOnlineEvent(id, uid, login, name, sec, nsec) ==
    [ID |-> id, BroadcasterUserID |-> uid, BroadcasterUserLogin |-> login,
     BroadcasterUserName |-> name, StartedAt |-> [sec |-> sec, nsec |-> nsec]]

\* The zero value of StreamOnlineEvent.
NoEvent == StreamOnlineEvent("", "", "", "", 0, 0)

\* The request bodies the environment sends.
OnlineBodies == {"online_a1", "online_bob", "online_carol"}

\* json.Unmarshal(payload, &notification) followed by the decoding of
\* notification.Event in handleStreamOnline.
Unmarshal(body) ==
    LET parsed(subType, challenge, event) ==
            [ok |-> TRUE, SubscriptionType |-> subType, Challenge |-> challenge,
             Event |-> event]
    IN CASE body = "verify" -> parsed("stream.online", "X42", NoEvent)
         [] body = "verify2" -> parsed("stream.online", "<c&d>", NoEvent)
         [] body = "follow" -> parsed("channel.follow", "", NoEvent)
         [] body = "online_a1" ->
              parsed("stream.online", "", StreamOnlineEvent("e1", "1", "alice", "Alice", 10, 0))
         [] body = "online_bob" ->
              parsed("stream.online", "", StreamOnlineEvent("e3", "7", "BOB", "Bob", 30, 0))
         [] body = "online_carol" ->
              parsed("stream.online", "", StreamOnlineEvent("e4", "3", "carol", "Carol", 40, 0))
         [] OTHER -> [ok |-> FALSE, SubscriptionType |-> "", Challenge |-> "",
                      Event |-> NoEvent]

MessageTypeWebhookCallbackVerification == "webhook_callback_verification"
MessageTypeNotification == "notification"
MessageTypeRevocation == "revocation"

\* A POST /twitch request: the EventSub headers and the body.
Request(messageType, signature, body) ==
    [MessageID |-> "m1", MessageTimestamp |-> "t1", MessageType |-> messageType,
     MessageSignature |-> signature, Body |-> body]

NoRequest == Request("", SigString("", NoDigits("")), "")

\* The signature headers a sender can put on a request with this body.
SignatureChoices(secret, body) ==
    {TwitchSignature(secret, "m1", "t1", body),               \* what Twitch sends
     GenerateSignature(secret, <<body>>),                     \* body only, with prefix
     TrimPrefix(GenerateSignature(secret, <<body>>), "sha256="), \* body only, bare hex
     SigString("sha1=", HexEncode(Hmac("sha1", secret, <<body>>))),
     SigString("sha512=", HexEncode(Hmac("sha512", secret, <<body>>))),
     GenerateSignature("other_secret", <<body>>),              \* wrong key
     GenerateSignature(secret, <<"verify">>),                 \* signed another body
     SigString("", NoDigits("invalid_signature")),
     SigString("", NoDigits(""))}                             \* header missing

\* The requests the environment sends: every stream.online body signed the way
\* the validator's own GenerateSignature signs, one body under every signature
\* choice, and the other message types and bodies.
Requests ==
    LET secret == Config0.Twitch.WebhookSecret
    IN  {Request(MessageTypeNotification, GenerateSignature(secret, <<body>>), body) :
            body \in OnlineBodies}
        \cup {Request(MessageTypeNotification, sig, "online_a1") :
                sig \in SignatureChoices(secret, "online_a1")}
        \cup {Request(MessageTypeWebhookCallbackVerification,
                      GenerateSignature(secret, <<body>>), body) :
                body \in {"verify", "verify2"}}
        \cup {Request(mt, GenerateSignature(secret, <<"follow">>), "follow") :
                mt \in {MessageTypeNotification, MessageTypeRevocation, "unknown"}}
        \cup {Request(MessageTypeNotification, GenerateSignature(secret, <<"not json">>),
                      "not json")}

\* An HTTP response: the Content-Type header, the status code and the body.
Response(contentType, status, body) ==
    [contentType |-> contentType, status |-> status, body |-> body]

NoResponse == Response("", 0, "")

\* http.Error(w, error, code)
HttpError(error, code) == Response("text/plain; charset=utf-8", code, error \o "\n")

\* ------------------------------------------------------------ twitch.Processor

\* Processor.findStreamerConfig: the keys of the streamers the loop can return
\* (the map is ranged over in any order); empty when it returns nil.
findStreamerConfig(streamers, userID, login) ==
    {k \in DOMAIN streamers :
        \/ streamers[k].UserID = userID
        \/ EqualFold(streamers[k].Login, login)}

\* twitch.ProcessedEvent, and the error return of ProcessNotification.
ProcessedEvent(type, action, challenge, event) ==
    [err |-> FALSE, Type |-> type, Action |-> action, Challenge |-> challenge,
     Event |-> event]

ProcessError == [err |-> TRUE, Type |-> "", Action |-> "", Challenge |-> "",
                 Event |-> NoEvent]

\* Processor.handleStreamOnline
handleStreamOnline(config, notification) ==
    LET streamEvent == notification.Event
    IN  IF findStreamerConfig(config.Streamers, streamEvent.BroadcasterUserID,
                              streamEvent.BroadcasterUserLogin) = {}
        THEN ProcessedEvent("unconfigured_streamer", "revoke", "", NoEvent)
        ELSE ProcessedEvent("stream.online", "process", "", streamEvent)

\* A handler of notifications that takes every subscription type for
\* stream.online.
handleNotificationOfAnyType(config, notification) ==
    handleStreamOnline(config, notification)

\* Processor.handleNotification
handleNotification(config, notification) ==
    IF notification.SubscriptionType = "stream.online"
    THEN handleStreamOnline(config, notification)
    ELSE ProcessedEvent("unsupported", "ignore", "", NoEvent)

\* Processor.ProcessNotification(headers, payload) of a processor holding config
ProcessNotification(config, messageType, payload) ==
    LET notification == Unmarshal(payload)
    IN  IF ~notification.ok THEN ProcessError
        ELSE CASE messageType = MessageTypeWebhookCallbackVerification ->
                    ProcessedEvent("verification", "respond", notification.Challenge, NoEvent)
               [] messageType = MessageTypeNotification ->
                    handleNotification(config, notification)
               [] messageType = MessageTypeRevocation ->
                    ProcessedEvent("revocation", "ignore", "", NoEvent)
               [] OTHER -> ProcessError

\* --------------------------------------------------------------- cache.Manager

\* sha256.Sum256 followed by hex.EncodeToString: an ideal hash.
Sha256Hex(data) == [sha256 |-> data]

\* Manager.GenerateEventKey: the hash of "streamerID:eventID:timestamp.Unix()".
GenerateEventKey(streamerID, eventID, timestamp) ==
    Sha256Hex(<<streamerID, ":", eventID, ":", timestamp.sec>>)

\* The key of a stream event, as processStreamEvent computes it.
EventKey(ev) == GenerateEventKey(ev.BroadcasterUserID, ev.ID, ev.StartedAt)

\* time.Now().After(t), for an instant kept relative to the clock.
NowAfter(t) == t < 0

\* A lookup that takes every entry for live.
IsDuplicateIgnoringExpiry(entries, eventKey) ==
    [dup |-> eventKey \in DOMAIN entries, cache |-> entries]

\* Manager.IsDuplicate: the value returned and the map it leaves.
IsDuplicate(entries, eventKey) ==
    IF eventKey \notin DOMAIN entries
    THEN [dup |-> FALSE, cache |-> entries]
    ELSE IF NowAfter(entries[eventKey].ExpiresAt)
         THEN [dup |-> FALSE,
               cache |-> [k \in DOMAIN entries \ {eventKey} |-> entries[k]]]
         ELSE [dup |-> TRUE, cache |-> entries]

\* Manager.AddEvent: the map it leaves.
AddEvent(entries, eventKey, ttl) ==
    [k \in DOMAIN entries \cup {eventKey} |->
        IF k = eventKey THEN [ExpiresAt |-> ttl] ELSE entries[k]]

\* ------------------------------------------------- webhook.Dispatcher, Enricher

\* The channel tag lists the upstream API can hold for a channel.
UpstreamTagLists == {<<"Music">>, <<"Gaming Live">>, <<"Music", "GAMING">>}

\* What GetChannelInfo returns: an error, or the channel's tags.
ChannelOutcomes ==
    {[err |-> TRUE, Tags |-> <<>>]} \cup [err : {FALSE}, Tags : UpstreamTagLists]

NoChannel == [err |-> FALSE, Tags |-> <<>>]

\* base64.StdEncoding.EncodeToString on the image bytes that occur in the model.
Base64(bytes) ==
    CASE bytes = "img" -> "aW1n"
      [] bytes = "" -> ""
      [] OTHER -> "Pz8/"

\* webhook.ImageData
ImageData(url, data) == [URL |-> url, Width |-> 300, Height |-> 300, Data |-> data]

\* The nil *ImageData.
NoImage == [URL |-> "", Width |-> 0, Height |-> 0, Data |-> ""]

\* What GetUserInfo returns: an error, or the view count and the URL of the
\* profile image, which can be empty.
UserOutcomes ==
    {[err |-> TRUE, ViewCount |-> 0, ProfileImageURL |-> ""],
     [err |-> FALSE, ViewCount |-> 7, ProfileImageURL |-> ""],
     [err |-> FALSE, ViewCount |-> 7, ProfileImageURL |-> "http://img/p.jpg"]}

\* What the GET of the profile image returns: an error, or the image bytes.
ImageOutcomes == {[err |-> TRUE, Bytes |-> ""], [err |-> FALSE, Bytes |-> "img"]}

\* What GetFollowersCount returns: an error, or the count.
FollowersOutcomes == {[err |-> TRUE, Count |-> 0], [err |-> FALSE, Count |-> 5]}

\* What the upstream API and the image host answer to the calls of one
\* EnrichPayload.
Answers(user, image, channel, followers) ==
    [User |-> user, Image |-> image, Channel |-> channel, Followers |-> followers]

\* Every call fails.
AnswersDown ==
    Answers([err |-> TRUE, ViewCount |-> 0, ProfileImageURL |-> ""],
            [err |-> TRUE, Bytes |-> ""],
            [err |-> TRUE, Tags |-> <<>>],
            [err |-> TRUE, Count |-> 0])

\* The answers in which the channel's answer is this one and the other calls
\* fail with it or succeed with it.
AnswersWith(channel) ==
    IF channel.err THEN AnswersDown
    ELSE Answers([err |-> FALSE, ViewCount |-> 7, ProfileImageURL |-> "http://img/p.jpg"],
                 [err |-> FALSE, Bytes |-> "img"],
                 channel,
                 [err |-> FALSE, Count |-> 5])

\* webhook.WebhookPayload (the fields the pipeline decides on).  EventKey is
\* not a field of the code's payload: it names the event the payload is for.
WebhookPayload(streamerKey, streamerConfig, ev) ==
    [StreamerLogin |-> streamerConfig.Login,
     StreamerID |-> IF streamerConfig.UserID = "" THEN ev.BroadcasterUserID
                    ELSE streamerConfig.UserID,
     ViewCount |-> 0, FollowersCount |-> 0, Image |-> NoImage,
     Tags |-> <<>>,
     EventKey |-> EventKey(ev)]

NoPayload == [StreamerLogin |-> "", StreamerID |-> "",
              ViewCount |-> 0, FollowersCount |-> 0, Image |-> NoImage, Tags |-> <<>>,
              EventKey |-> Sha256Hex(<<>>)]

\* A tag filter that lets every stream through.
checkTagFilterPassAll(twitchTags, tagFilter) == TRUE

\* Enricher.checkTagFilter
checkTagFilter(twitchTags, tagFilter) ==
    \/ Len(tagFilter) = 0
    \/ \E i \in 1..Len(twitchTags), j \in 1..Len(tagFilter) :
          EqualFold(twitchTags[i], tagFilter[j])

\* An enrichment that gives up at the first call that fails.
EnrichPayloadUntilFirstError(payload, streamerConfig, answers) ==
    IF answers.User.err
    THEN [blocked |-> FALSE, payload |-> payload, calls |-> <<"GetUserInfo">>]
    ELSE IF answers.Channel.err
         THEN [blocked |-> FALSE,
               payload |-> [payload EXCEPT !.ViewCount = answers.User.ViewCount],
               calls |-> <<"GetUserInfo", "GetChannelInfo">>]
         ELSE [blocked |-> Len(streamerConfig.TagFilter) > 0
                             /\ ~checkTagFilter(answers.Channel.Tags,
                                                streamerConfig.TagFilter),
               payload |-> [payload EXCEPT !.ViewCount = answers.User.ViewCount,
                                           !.Tags = answers.Channel.Tags],
               calls |-> <<"GetUserInfo", "GetChannelInfo", "GetFollowersCount">>]

\* Enricher.EnrichPayload: whether it returns "stream blocked by tag filter",
\* the payload it leaves, and the calls it made, in their order.  The image
\* cache holds no image of the streamer.
EnrichPayload(payload, streamerConfig, answers) ==
    LET userInfo == answers.User
        channelInfo == answers.Channel
        withUser == IF userInfo.err THEN payload
                    ELSE [payload EXCEPT !.ViewCount = userInfo.ViewCount]
        fetchesImage == ~userInfo.err /\ userInfo.ProfileImageURL # ""
        withImage == IF fetchesImage /\ ~answers.Image.err
                     THEN [withUser EXCEPT
                             !.Image = ImageData(userInfo.ProfileImageURL,
                                                 Base64(answers.Image.Bytes))]
                     ELSE withUser
        callsToChannel == <<"GetUserInfo">>
                          \o (IF fetchesImage THEN <<"getProfileImage">> ELSE << >>)
                          \o <<"GetChannelInfo">>
        withTags == IF channelInfo.err THEN withImage
                    ELSE [withImage EXCEPT !.Tags = channelInfo.Tags]
        withFollowers == IF answers.Followers.err THEN withTags
                         ELSE [withTags EXCEPT !.FollowersCount = answers.Followers.Count]
    IN  IF /\ ~channelInfo.err
           /\ Len(streamerConfig.TagFilter) > 0
           /\ ~checkTagFilter(channelInfo.Tags, streamerConfig.TagFilter)
        THEN [blocked |-> TRUE, payload |-> withImage, calls |-> callsToChannel]
        ELSE [blocked |-> FALSE, payload |-> withFollowers,
              calls |-> callsToChannel \o <<"GetFollowersCount">>]

\* What an EnrichPayload call was answered, whether it returned "stream
\* blocked by tag filter", and the calls it made.
Enrichment(answers, blocked, calls) ==
    [Answers |-> answers, Blocked |-> blocked, Calls |-> calls]

\* What the destination does with a POST.
DispatchOutcomes == {"200", "500"}

\* http.NewRequestWithContext followed by httpClient.Do return an error for
\* this URL whatever the destination does: it has no scheme ("unsupported
\* protocol scheme").
NoRequestPossible(webhookURL) == webhookURL \in {"", "invalid-url"}

\* Dispatcher.Dispatch: the DispatchResult for a request to webhookURL and for
\* what the destination did with it.
Dispatch(webhookURL, outcome) ==
    IF NoRequestPossible(webhookURL)
    THEN [Success |-> FALSE, StatusCode |-> 0, Error |-> "request failed"]
    ELSE CASE outcome = "200" -> [Success |-> TRUE, StatusCode |-> 200, Error |-> ""]
           [] OTHER -> [Success |-> FALSE, StatusCode |-> 500, Error |-> "HTTP 500"]

\* webhook.DispatchRequest
DispatchRequest(webhookURL, signing, payload, streamerKey, attempt, nextRetry) ==
    [WebhookURL |-> webhookURL, WebhookSecret |-> signing.Secret,
     WebhookHeader |-> signing.Header, WebhookHashing |-> signing.Hashing,
     Payload |-> payload, StreamerKey |-> streamerKey,
     Attempt |-> attempt, NextRetry |-> nextRetry]

\* The zero value of DispatchRequest.
NoDispatchRequest ==
    DispatchRequest("", [Secret |-> "", Header |-> "", Hashing |-> ""], NoPayload, "", 0, 0)

\* ------------------------------------------------------------ encoding/json

\* The member of a decoded JSON object, or the zero value a field keeps when
\* the object has no such member.
Member(object, key, zero) == IF key \in DOMAIN object THEN object[key] ELSE zero

\* The JSON object without the members that omitempty leaves out.
OmitEmpty(object, empty) == [k \in DOMAIN object \ empty |-> object[k]]

\* time.Time.MarshalJSON: the instant in RFC 3339 with nanoseconds.
FormatTime(t) == <<"RFC3339Nano", t>>

\* time.Time.UnmarshalJSON
ParseTime(text) == text[2]

\* json.Marshal of a *ImageData that is not nil.
MarshalImageData(image) ==
    OmitEmpty([url |-> image.URL, width |-> image.Width, height |-> image.Height,
               data |-> image.Data],
              IF image.Data = "" THEN {"data"} ELSE {})

\* json.Unmarshal into an ImageData.
UnmarshalImageData(object) ==
    [URL |-> Member(object, "url", ""), Width |-> Member(object, "width", 0),
     Height |-> Member(object, "height", 0), Data |-> Member(object, "data", "")]

\* json.Marshal of a WebhookPayload; the timestamp member stands for the
\* fields that name the event.
MarshalPayload(payload) ==
    OmitEmpty([streamer_login |-> payload.StreamerLogin,
               streamer_id |-> payload.StreamerID,
               view_count |-> payload.ViewCount,
               followers_count |-> payload.FollowersCount,
               tags |-> payload.Tags,
               image |-> MarshalImageData(payload.Image),
               timestamp |-> payload.EventKey],
              (IF payload.ViewCount = 0 THEN {"view_count"} ELSE {})
                 \cup (IF payload.FollowersCount = 0 THEN {"followers_count"} ELSE {})
                 \cup (IF Len(payload.Tags) = 0 THEN {"tags"} ELSE {})
                 \cup (IF payload.Image = NoImage THEN {"image"} ELSE {}))

\* json.Unmarshal into a WebhookPayload.
UnmarshalPayload(object) ==
    [StreamerLogin |-> Member(object, "streamer_login", ""),
     StreamerID |-> Member(object, "streamer_id", ""),
     ViewCount |-> Member(object, "view_count", 0),
     FollowersCount |-> Member(object, "followers_count", 0),
     Image |-> IF "image" \in DOMAIN object THEN UnmarshalImageData(object["image"])
               ELSE NoImage,
     Tags |-> Member(object, "tags", << >>),
     EventKey |-> Member(object, "timestamp", NoPayload.EventKey)]

\* json.Marshal of a DispatchRequest.
MarshalDispatchRequest(request) ==
    OmitEmpty([webhook_url |-> request.WebhookURL,
               payload |-> MarshalPayload(request.Payload),
               hmac_secret |-> request.WebhookSecret,
               webhook_header |-> request.WebhookHeader,
               webhook_hashing |-> request.WebhookHashing,
               streamer_key |-> request.StreamerKey,
               attempt |-> request.Attempt,
               next_retry |-> FormatTime(request.NextRetry)],
              (IF request.WebhookSecret = "" THEN {"hmac_secret"} ELSE {})
                 \cup (IF request.WebhookHeader = "" THEN {"webhook_header"} ELSE {})
                 \cup (IF request.WebhookHashing = "" THEN {"webhook_hashing"} ELSE {}))

\* json.Unmarshal into a DispatchRequest.
UnmarshalDispatchRequest(object) ==
    [WebhookURL |-> Member(object, "webhook_url", ""),
     WebhookSecret |-> Member(object, "hmac_secret", ""),
     WebhookHeader |-> Member(object, "webhook_header", ""),
     WebhookHashing |-> Member(object, "webhook_hashing", ""),
     Payload |-> IF "payload" \in DOMAIN object THEN UnmarshalPayload(object["payload"])
                 ELSE NoPayload,
     StreamerKey |-> Member(object, "streamer_key", ""),
     Attempt |-> Member(object, "attempt", 0),
     NextRetry |-> IF "next_retry" \in DOMAIN object THEN ParseTime(object["next_retry"])
                   ELSE 0]

\* Manager.saveState: the retry state file it writes.
saveState(q) == [queue |-> [i \in 1..Len(q) |-> MarshalDispatchRequest(q[i])]]

\* Manager.loadState: the queue it leaves.  A state file that does not exist
\* loads like the file of an empty queue.
loadState(file) ==
    [i \in 1..Len(file.queue) |-> UnmarshalDispatchRequest(file.queue[i])]

\* The retry state file of an empty queue.
NoState == saveState(<< >>)

\* json.Marshal of a cache Entry (key and expiry).
MarshalEntry(key, entry) == [key |-> key, expires_at |-> FormatTime(entry.ExpiresAt)]

\* json.Unmarshal into a cache Entry.
UnmarshalEntry(object) ==
    [Key |-> Member(object, "key", ""),
     ExpiresAt |-> IF "expires_at" \in DOMAIN object THEN ParseTime(object["expires_at"])
                   ELSE 0]

\* The orders in which a range over a map can visit its keys.
Orderings(keys) ==
    {order \in [1..Cardinality(keys) -> keys] :
        \A i, j \in 1..Cardinality(keys) : i # j => order[i] # order[j]}

\* Manager.saveCache: the cache files it can write, one for every order in
\* which the range over the map visits the entries.
saveCache(entries) ==
    {[i \in 1..Len(order) |-> MarshalEntry(order[i], entries[order[i]])] :
        order \in Orderings(DOMAIN entries)}

\* time.Now().Before(t), for an instant kept relative to the clock.
NowBefore(t) == t > 0

\* A load of the cache file that keeps the expired entries too.
loadCacheKeepingExpired(entries, file) ==
    [k \in DOMAIN entries \cup {UnmarshalEntry(file[i]).Key : i \in 1..Len(file)} |->
        IF \E i \in 1..Len(file) : UnmarshalEntry(file[i]).Key = k
        THEN LET i == CHOOSE i \in 1..Len(file) : UnmarshalEntry(file[i]).Key = k
             IN  [ExpiresAt |-> UnmarshalEntry(file[i]).ExpiresAt]
        ELSE entries[k]]

RECURSIVE loadCache(_, _)
\* Manager.loadCache: the map it leaves.  A cache file that does not exist
\* loads like an empty array.
loadCache(entries, file) ==
    IF Len(file) = 0 THEN entries
    ELSE LET entry == UnmarshalEntry(Head(file))
         IN  loadCache(IF NowBefore(entry.ExpiresAt)
                       THEN [k \in DOMAIN entries \cup {entry.Key} |->
                               IF k = entry.Key THEN [ExpiresAt |-> entry.ExpiresAt]
                               ELSE entries[k]]
                       ELSE entries,
                       Tail(file))

\* A resolution that falls back to the global webhook even when it is disabled.
ResolveWebhookURLIgnoringEnabled(config, streamerConfig) ==
    IF streamerConfig.TargetWebhookURL = "" /\ config.GlobalWebhook.URL # ""
    THEN config.GlobalWebhook.URL
    ELSE streamerConfig.TargetWebhookURL

\* The webhook URL processStreamEvent resolves: the streamer's own, else the
\* global one when it is enabled, else "".
ResolveWebhookURL(config, streamerConfig) ==
    IF streamerConfig.TargetWebhookURL = ""
       /\ config.GlobalWebhook.Enabled /\ config.GlobalWebhook.URL # ""
    THEN config.GlobalWebhook.URL
    ELSE streamerConfig.TargetWebhookURL

\* The secret, header and hashing processStreamEvent resolves with the URL.
ResolveWebhookSigning(config, streamerConfig) ==
    IF streamerConfig.TargetWebhookURL = ""
       /\ config.GlobalWebhook.Enabled /\ config.GlobalWebhook.URL # ""
    THEN [Secret |-> config.GlobalWebhook.TargetWebhookSecret,
          Header |-> config.GlobalWebhook.TargetWebhookHeader,
          Hashing |-> config.GlobalWebhook.TargetWebhookHashing]
    ELSE [Secret |-> streamerConfig.TargetWebhookSecret,
          Header |-> streamerConfig.TargetWebhookHeader,
          Hashing |-> streamerConfig.TargetWebhookHashing]

\* The streamers the lookup loop of processStreamEvent can stop at.
ServerFindStreamer(streamers, ev) ==
    {k \in DOMAIN streamers :
        \/ streamers[k].UserID = ev.BroadcasterUserID
        \/ streamers[k].Login = ev.BroadcasterUserLogin}

\* --------------------------------------------------------------- retry.Manager

\* math.MaxInt64 and math.MinInt64 nanoseconds, the range of a time.Duration,
\* in time units (hours).
MaxInt64Duration == 2562047
MinInt64Duration == -2562048

RECURSIVE BackoffProduct(_, _)
\* calculateNextRetry: float64(delay) * math.Pow(BackoffFactor, attempt-1), a
\* float64; exact up to the range of a Duration, and some value above that
\* range beyond it.
BackoffProduct(retry, attempt) ==
    IF attempt <= 1 THEN retry.InitialDelay
    ELSE LET product == BackoffProduct(retry, attempt - 1)
         IN  IF product > MaxInt64Duration THEN product
             ELSE product * retry.BackoffFactor

\* time.Duration(x) for a float64 x.  The conversion of a value that int64
\* cannot hold is implementation-dependent: the amd64 build gives
\* math.MinInt64, the arm64 build math.MaxInt64.
DurationOfFloat(x) ==
    IF x > MaxInt64Duration THEN {MinInt64Duration, MaxInt64Duration} ELSE {x}

\* time.Now().Add(delay), relative to the clock; an instant in the past
\* saturates at Past.
NowAdd(delay) == IF delay < Past THEN Past ELSE delay

\* Manager.calculateNextRetry(attempt): the instants it can return, relative
\* to the clock.
calculateNextRetry(retry, attempt) ==
    {NowAdd(IF delay > retry.MaxDelay THEN retry.MaxDelay ELSE delay) :
        delay \in DurationOfFloat(BackoffProduct(retry, attempt))}

\* Manager.AddRequest: the queues it can leave.
AddRequest(config, q, request) ==
    {Append(q, [request EXCEPT !.Attempt = request.Attempt + 1,
                               !.NextRetry = nextRetry]) :
        nextRetry \in calculateNextRetry(config.Retry, request.Attempt + 1)}

\* A readiness test that forgets the attempt limit.
IsReadyIgnoringMaxAttempts(config, request) == NowAfter(request.NextRetry)

\* processReadyRetries: the request is ready for a retry.
IsReady(config, request) ==
    NowAfter(request.NextRetry) /\ request.Attempt <= config.Retry.MaxAttempts

\* A split of the queue that keeps no request that waits.
IsRemainingNever(config, request) == FALSE

\* A split of the queue that also keeps the requests handed to a goroutine.
IsRemainingOrReady(config, request) == request.Attempt <= config.Retry.MaxAttempts

\* processReadyRetries: the request stays in the queue.
IsRemaining(config, request) ==
    ~IsReady(config, request) /\ request.Attempt <= config.Retry.MaxAttempts

\* ---------------------------------------------------------------- output.Writer

\* output.OutputEntry
OutputEntry(payload, success, errorMsg) ==
    [Payload |-> payload, Success |-> success, Error |-> errorMsg]

\* A writer that trims to the oldest entries.
WritePayloadKeepingOldest(config, entries, payload, success, errorMsg) ==
    IF ~config.Output.Enabled THEN entries
    ELSE LET appended == Append(entries, OutputEntry(payload, success, errorMsg))
         IN  IF Len(appended) > config.Output.MaxLines
             THEN SubSeq(appended, 1, config.Output.MaxLines)
             ELSE appended

\* Writer.WritePayload: the entries it leaves.
WritePayload(config, entries, payload, success, errorMsg) ==
    IF ~config.Output.Enabled THEN entries
    ELSE LET appended == Append(entries, OutputEntry(payload, success, errorMsg))
         IN  IF Len(appended) > config.Output.MaxLines
             THEN SubSeq(appended, Len(appended) - config.Output.MaxLines + 1, Len(appended))
             ELSE appended

\* ----------------------------------------------------------------------- state

\* The components that hold a pointer to a configuration snapshot.
Components ==
    {"server", "processor", "subscriptionManager", "dispatcher", "retryManager",
     "outputWriter", "enricher", "watcher"}

\* The startup snapshot with another [output] section.
ConfigOutput(name, enabled, maxLines) ==
    [Config0 EXCEPT !.Name = name, !.Output = [Enabled |-> enabled, MaxLines |-> maxLines]]

\* The snapshot with this name.
ConfigOf(name) ==
    CASE name = "c1" -> Config1
      [] name = "c2" -> Config2
      [] name = "c3" -> Config3
      [] name = "c4" -> Config4
      [] name = "c5" -> Config5
      [] name = "c6" -> Config6
      [] name = "c7" -> Config7
      [] name = "out0" -> ConfigOutput("out0", TRUE, 0)
      [] name = "out1" -> ConfigOutput("out1", TRUE, 1)
      [] name = "out2" -> ConfigOutput("out2", TRUE, 2)
      [] name = "off" -> ConfigOutput("off", FALSE, 2)
      [] name = "bad" -> ConfigBad
      [] OTHER -> Config0

\* toml.DecodeFile on the version of the configuration file with this name:
\* TRUE when it returns no error.  The version "garbage" is not TOML.
DecodeFile(name) == name # "garbage"

\* LoadConfig on the version of the file with this name: whether it returns
\* an error, and the name of the snapshot it returns otherwise.
LoadConfig(name) ==
    IF DecodeFile(name) /\ validateConfig(ConfigOf(name))
    THEN [err |-> FALSE, config |-> name]
    ELSE [err |-> TRUE, config |-> Nil]

\* syncSubscriptions: the user ids of the configured streamers it asks a
\* subscription for (a streamer without user_id is skipped).
SubscribableIDs(config) ==
    {config.Streamers[k].UserID : k \in DOMAIN config.Streamers} \ {""}

SubscriptionStatusEnabled == "enabled"
SubscriptionStatusWebhookCallbackVerificationPending == "webhook_callback_verification_pending"
SubscriptionStatusAuthorizationRevoked == "authorization_revoked"

\* twitch.EventSubSubscription (the fields syncSubscriptions and
\* createSubscription read and write)
EventSubSubscription(type, status, broadcasterUserID, callback) ==
    [Type |-> type, Status |-> status,
     Condition |-> [broadcaster_user_id |-> broadcasterUserID],
     Transport |-> [Callback |-> callback]]

\* fmt.Sprintf("%d", port) for the ports the configurations use.
Itoa(port) ==
    CASE port = 80 -> "80"
      [] port = 443 -> "443"
      [] port = 8080 -> "8080"
      [] OTHER -> "0"

\* fmt.Sprintf("%s://%s/twitch", ...) and fmt.Sprintf("%s://%s:%d/twitch", ...)
SprintfURL(scheme, host, port) == <<scheme, host, port, "/twitch">>

\* buildCallbackURL
buildCallbackURL(config) ==
    IF config.Server.ExternalDomain # ""
    THEN SprintfURL("https", config.Server.ExternalDomain, "")
    ELSE LET scheme == IF config.Server.TLS.Enabled THEN "https" ELSE "http"
             host == IF config.Server.ListenAddr \in {"0.0.0.0", ""}
                     THEN "localhost" ELSE config.Server.ListenAddr
             port == config.Server.Port
         IN  IF config.Server.TLS.Enabled /\ Len(config.Server.TLS.Domains) > 0
             THEN SprintfURL(scheme, config.Server.TLS.Domains[1], "")
             ELSE IF (scheme = "https" /\ port = 443) \/ (scheme = "http" /\ port = 80)
                  THEN SprintfURL(scheme, host, "")
                  ELSE SprintfURL(scheme, host, Itoa(port))

\* NewSubscriptionManager: the callbackURL it stores.
NewSubscriptionManager(config) ==
    IF config.Twitch.IncomingWebhookURL = << >>
    THEN buildCallbackURL(config)
    ELSE config.Twitch.IncomingWebhookURL

\* A map of existing subscriptions that forgets the status.
ExistingSubsOfAnyStatus(currentSubs) ==
    {sub.Condition.broadcaster_user_id :
        sub \in {x \in currentSubs : x.Type = "stream.online"}}

\* syncSubscriptions: the keys of its map existingSubs.
ExistingSubs(currentSubs) ==
    {sub.Condition.broadcaster_user_id :
        sub \in {x \in currentSubs :
                    x.Type = "stream.online" /\ x.Status = SubscriptionStatusEnabled}}

\* syncSubscriptions: the user ids it calls createSubscription for.
CreateCalls(config, currentSubs) ==
    SubscribableIDs(config) \ ExistingSubs(currentSubs)

\* A loop that gives up at the first createSubscription that fails: when
\* upstream refuses one of the ids, the refused one is the last it asks for.
CreateAttemptsUntilFirstError(config, currentSubs, created) ==
    LET refused == CreateCalls(config, currentSubs) \ created
    IN  IF refused = {} THEN CreateCalls(config, currentSubs)
        ELSE {CHOOSE u \in refused : TRUE}

\* syncSubscriptions: the user ids its loop calls createSubscription for when
\* upstream accepts the requests of the ids in created and refuses the
\* others: a refusal is logged and the loop continues.
CreateAttempts(config, currentSubs, created) == CreateCalls(config, currentSubs)

\* createSubscription: the request it posts for broadcasterUserID.
SubscriptionRequest(config, callback, broadcasterUserID) ==
    [Type |-> "stream.online",
     Condition |-> [broadcaster_user_id |-> broadcasterUserID],
     Transport |-> [Callback |-> callback, Secret |-> config.Twitch.WebhookSecret]]

\* syncSubscriptions: the subscriptions upstream holds after it, when upstream
\* accepted the requests of the ids in created and refused the others.  A new
\* subscription waits for the verification of its callback.
syncSubscriptions(config, callback, currentSubs, created) ==
    currentSubs \cup
        {EventSubSubscription("stream.online",
                              SubscriptionStatusWebhookCallbackVerificationPending,
                              u, callback) :
            u \in created \cap CreateAttempts(config, currentSubs, created)}

\* What a syncSubscriptions call did: whether getSubscriptions answered, the
\* subscriptions it listed, the requests createSubscription posted, whether it
\* returned an error, by is the caller, n counts the calls, listening tells
\* whether the listener was accepting connections when it ran.
Sync(n, by, listOK, config, callback, currentSubs, created, listening) ==
    [n |-> n, by |-> by, listOK |-> listOK,
     listed |-> IF listOK THEN currentSubs ELSE {},
     creates |-> IF listOK
                 THEN {SubscriptionRequest(config, callback, u) :
                          u \in CreateAttempts(config, currentSubs, created)}
                 ELSE {},
     err |-> ~listOK,
     listening |-> listening]

NoSync == [n |-> 0, by |-> "", listOK |-> FALSE, listed |-> {}, creates |-> {},
           err |-> FALSE, listening |-> FALSE]

\* The background goroutines.
Tasks == {"retryLoop", "reconcileLoop", "cacheSweep", "imageSweep", "watcher"}

\* The tasks that call the upstream API.
Callers == {"enricher", "subscriptionManager", "resolver"}

\* twitch.AppAccessToken; present is FALSE for the nil pointer.  ExpiresAt is
\* relative to the clock, in units of five minutes.
AppAccessToken(expiresAt) == [present |-> TRUE, ExpiresAt |-> expiresAt]

NoToken == [present |-> FALSE, ExpiresAt |-> 0]

\* The keys of the events the environment sends.
AllKeys == {EventKey(Unmarshal(b).Event) : b \in OnlineBodies}

\* The lifetime of the tokens the upstream API grants (expires_in).
TokenLifetime == 3

\* ensureValidToken: the 5 minutes before ExpiresAt.
RefreshBuffer == 1

VARIABLES
    pc,          \* pc[h]: where request handler h is
    req,         \* req[h]: the request handler h is serving
    work,        \* work[h]: processStreamEvent's locals in handler h
    cfg,         \* cfg[c]: the name of the snapshot component c points to
    subs,        \* broadcaster ids with an enabled upstream stream.online subscription
    cache,       \* cache.Manager.cache: event key -> Entry
    queue,       \* retry.Manager.queue
    inflight,    \* the requests held by running retryRequest goroutines (a bag)
    payloads,    \* output.Writer.payloads, as saved to the output file
    lastResp,    \* the response written last
    received,    \* number of requests received so far
    posts,       \* posts[k]: number of Dispatch calls made for event key k
    enrichments, \* number of EnrichPayload calls made
    enriched,    \* what the EnrichPayload call made last was answered and did
    window,      \* window[k]: first notification of key k + TTL
    answered,    \* answered[k]: non-duplicate notifications of key k answered "processed"
    delivered,   \* keys of the events a retry delivered
    dropped,     \* keys of the events dropped after max attempts
    reloads,     \* number of configuration file changes so far
    configFile,  \* the version the configuration file held at the last change
    sent,        \* the DispatchRequest handed to Dispatcher.Dispatch last
    stateFile,   \* the retry state file
    cacheFile,   \* the cache file: the array of entries it holds
    main,        \* where Server.Start is
    listener,    \* the goroutine that runs ListenAndServe
    ctxDone,     \* the context given to Server.Start is cancelled
    stopCh,      \* retry.Manager.stopCh is closed
    tasks,       \* tasks[t]: the background goroutine t
    callbackURL, \* SubscriptionManager.callbackURL
    lastSync,    \* what the syncSubscriptions call made last did
    token,       \* twitch.Client.token
    tokenMutex,  \* the caller that holds twitch.Client.tokenMutex
    caller,      \* caller[c]: where the upstream API call of c is
    roundTrip,   \* a signature generated by one Validator and validated by it
    cacheMutex,  \* cache.Manager.mutex: the goroutines that hold it for reading, for writing
    cacheCall,   \* cacheCall[g]: where the cache.Manager method called by goroutine g is
    written,     \* the entries WritePayload was called with, in the order of the calls
    watch,       \* Watcher.watchLoop: its position, the events waiting in
                 \* watcher.Events, debounceChan, the file version being loaded
    burst        \* the change events of the configuration file and the reload attempts

handlerVars == <<pc, req, work, lastResp>>
retryVars == <<queue, stateFile, cacheFile, inflight, delivered, dropped>>
ghostVars == <<posts, sent, enrichments, enriched, window, answered>>
lifeVars == <<main, listener, ctxDone, stopCh, tasks>>
subVars == <<callbackURL, lastSync>>
tokenVars == <<token, tokenMutex, caller>>
sigVars == <<roundTrip>>
cacheLockVars == <<cacheMutex, cacheCall>>
outputVars == <<written>>
watchVars == <<watch, burst>>
unitVars == <<sigVars, cacheLockVars, outputVars, watchVars>>
otherVars == <<lifeVars, subVars, tokenVars, unitVars>>
vars == <<pc, req, work, cfg, subs, cache, queue, inflight, payloads, lastResp, received,
          posts, enrichments, enriched, window, answered, delivered, dropped, reloads,
          configFile,
          sent, stateFile, cacheFile, lifeVars, subVars, tokenVars, unitVars>>

\* No signature was generated yet.
NoRoundTrip ==
    [step |-> "none", secret |-> "", payload |-> << >>, signature |-> SigString("", NoDigits("")),
     against |-> << >>, presented |-> SigString("", NoDigits("")), valid |-> FALSE]

\* The goroutines that call the cache manager: two request handlers and the
\* cleanupRoutine.
CacheUsers == {"h1", "h2", "cleanupRoutine"}

\* sync.RWMutex held by nobody.
Unlocked == [readers |-> {}, writer |-> Nil]

\* The goroutine is in no method of the cache manager; dup is what its last
\* IsDuplicate returned.
NoCall == [pc |-> "idle", key |-> "", dup |-> FALSE]

\* NewWatcher: debounceTime, 500 ms in units of 100 ms.
DebounceTime == 5

\* debounceChan is nil; otherwise it is the time left until the timer sends,
\* 0 once it has sent.
NilChan == -1

\* The longest time the model measures.
LongAgo == DebounceTime + 1

\* watchLoop at its select with no event waiting and debounceChan nil.
NoWatch ==
    [pc |-> "select", Events |-> 0, debounceChan |-> NilChan, loading |-> Nil, waited |-> 0]

\* No change event yet: the events of the current burst, the reload attempts
\* begun since its first event, the time since the last event occurred, the
\* time since watchLoop received an event, the events received since the last
\* attempt.
NoBurst == [events |-> 0, attempts |-> 0, sinceEvent |-> LongAgo, sinceReceived |-> LongAgo,
            unreloaded |-> 0]

\* The parts of the program that are exercised on their own are at rest.
SigIdle == roundTrip = NoRoundTrip
CacheIdle == cacheMutex = Unlocked /\ cacheCall = [g \in CacheUsers |-> NoCall]
OutputIdle == written = << >>
WatchIdle == watch = NoWatch /\ burst = NoBurst
UnitsIdle == SigIdle /\ CacheIdle /\ OutputIdle /\ WatchIdle

\* processStreamEvent's locals: streamerKey, streamerConfig, payload; Channel is
\* what the upstream API held when EnrichPayload asked.
Work(streamerKey, streamerConfig, payload, channel) ==
    [StreamerKey |-> streamerKey, StreamerConfig |-> streamerConfig,
     Payload |-> payload, Channel |-> channel]

NoWork == Work("", StreamerBob, NoPayload, NoChannel)

\* No EnrichPayload call was made yet.
NoEnrichment == Enrichment(AnswersDown, FALSE, << >>)

\* Server.Start with the snapshot of this name has reached its select: the
\* listener accepts, the background goroutines run, the streamers with a user
\* id have their subscription, the client holds a fresh token.
Serving(name) ==
    /\ subs = {EventSubSubscription("stream.online", SubscriptionStatusEnabled, u,
                                     NewSubscriptionManager(ConfigOf(name))) :
                  u \in SubscribableIDs(ConfigOf(name))}
    /\ callbackURL = NewSubscriptionManager(ConfigOf(name))
    /\ lastSync = NoSync
    /\ stateFile = NoState
    /\ cacheFile = << >>
    /\ main = "serving"
    /\ listener = "accepting"
    /\ ctxDone = FALSE
    /\ stopCh = FALSE
    /\ tasks = [t \in Tasks |-> "running"]
    /\ token = AppAccessToken(TokenLifetime)
    /\ tokenMutex = Nil
    /\ caller = [c \in Callers |-> "idle"]

\* Server.New followed by Server.Start: every component holds the snapshot
\* loaded at startup, the watcher's own pointer is still nil, the stores are empty.
InitServer ==
    /\ pc = [h \in Handlers |-> "idle"]
    /\ req = [h \in Handlers |-> NoRequest]
    /\ work = [h \in Handlers |-> NoWork]
    /\ cfg = [c \in Components |-> IF c = "watcher" THEN Nil ELSE "c0"]
    /\ Serving("c0")
    /\ sent = NoDispatchRequest
    /\ cache = << >>
    /\ queue = << >>
    /\ inflight = EmptyBag
    /\ payloads = << >>
    /\ lastResp = NoResponse
    /\ received = 0
    /\ posts = [k \in AllKeys |-> 0]
    /\ enrichments = 0
    /\ enriched = NoEnrichment
    /\ window = << >>
    /\ answered = [k \in AllKeys |-> 0]
    /\ delivered = {}
    /\ dropped = {}
    /\ reloads = 0
    /\ configFile = cfg["server"]

Init == InitServer /\ UnitsIdle

\* The handler writes a response and returns.
Respond(h, response) ==
    /\ pc' = [pc EXCEPT ![h] = "idle"]
    /\ req' = [req EXCEPT ![h] = NoRequest]
    /\ work' = [work EXCEPT ![h] = NoWork]
    /\ lastResp' = response

Unauthorized == HttpError("Unauthorized", 401)
InternalServerError == HttpError("Internal server error", 500)
Processed == Response("application/json", 200, "{\"status\":\"processed\"}")
Ignored == Response("application/json", 200, "{\"status\":\"ignored\"}")
Gone == Response("", 410, "")

\* The event of the request handler h is serving.
EventOf(h) == Unmarshal(req[h].Body).Event

\* Handler h takes the step that ends the stage it is in.
Leaves(h, stage) == pc[h] = stage /\ pc'[h] # stage

\* ------------------------------------------------------------ request handlers

\* handleTwitchWebhook: the request is read (io.ReadAll, the EventSub headers).
\* The handlers are interchangeable: the second serves a request only while
\* the first is busy.
Arrive(h, r) ==
    /\ pc[h] = "idle"
    /\ h = "h2" => pc["h1"] # "idle"
    /\ received < MaxRequests
    /\ pc' = [pc EXCEPT ![h] = "recv"]
    /\ req' = [req EXCEPT ![h] = r]
    /\ received' = received + 1
    /\ UNCHANGED <<work, lastResp, cfg, subs, otherVars, cache, payloads, reloads, configFile>>
    /\ UNCHANGED <<retryVars, ghostVars>>

\* handleTwitchWebhook: the signature check, ProcessNotification and the switch
\* on the action, up to the call of processStreamEvent.  The validator keeps the
\* secret it was given by Server.New.
HandleTwitchWebhook(h) ==
    /\ pc[h] = "recv"
    /\ UNCHANGED <<cfg, subs, otherVars, cache, payloads, received, reloads, configFile, retryVars>>
    /\ UNCHANGED <<posts, sent, enrichments, enriched, answered>>
    /\ IF ~ValidateSignature(Config0.Twitch.WebhookSecret, <<req[h].Body>>,
                             req[h].MessageSignature)
       THEN Respond(h, Unauthorized) /\ UNCHANGED window
       ELSE LET processedEvent ==
                    ProcessNotification(ConfigOf(cfg["processor"]), req[h].MessageType,
                                        req[h].Body)
            IN  IF processedEvent.err
                THEN Respond(h, InternalServerError) /\ UNCHANGED window
                ELSE CASE processedEvent.Action = "respond" ->
                            /\ Respond(h, Response("text/plain", 200,
                                                    processedEvent.Challenge))
                            /\ UNCHANGED window
                       [] processedEvent.Action = "process" ->
                            /\ pc' = [pc EXCEPT ![h] = "check"]
                            /\ window' =
                                 LET k == EventKey(processedEvent.Event)
                                 IN  IF k \in DOMAIN window THEN window
                                     ELSE [x \in DOMAIN window \cup {k} |->
                                             IF x = k THEN TTL ELSE window[x]]
                            /\ UNCHANGED <<req, work, lastResp>>
                       [] processedEvent.Action = "revoke" ->
                            Respond(h, Gone) /\ UNCHANGED window
                       [] OTHER ->
                            Respond(h, Ignored) /\ UNCHANGED window

\* processStreamEvent: s.cacheManager.IsDuplicate(eventKey); a duplicate makes
\* processStreamEvent return nil, and handleTwitchWebhook answers.
CheckDuplicate(h) ==
    /\ pc[h] = "check"
    /\ LET res == IsDuplicate(cache, EventKey(EventOf(h)))
       IN  /\ cache' = res.cache
           /\ IF res.dup
              THEN Respond(h, Processed)
              ELSE /\ pc' = [pc EXCEPT ![h] = "add"]
                   /\ UNCHANGED <<req, work, lastResp>>
    /\ UNCHANGED <<cfg, subs, otherVars, payloads, received, reloads, configFile, retryVars, ghostVars>>

\* processStreamEvent: s.cacheManager.AddEvent, the lookup of the streamer in
\* s.config.Streamers and CreatePayload.
AddToCache(h) ==
    /\ pc[h] = "add"
    /\ cache' = AddEvent(cache, EventKey(EventOf(h)), TTL)
    /\ LET streamers == ConfigOf(cfg["server"]).Streamers
           found == ServerFindStreamer(streamers, EventOf(h))
       IN  IF found = {}
           THEN Respond(h, InternalServerError)
           ELSE /\ \E k \in found :
                     work' = [work EXCEPT ![h] =
                                 Work(k, streamers[k],
                                      WebhookPayload(k, streamers[k], EventOf(h)),
                                      NoChannel)]
                /\ pc' = [pc EXCEPT ![h] = "enrich"]
                /\ UNCHANGED <<req, lastResp>>
    /\ UNCHANGED <<cfg, subs, otherVars, payloads, received, reloads, configFile, retryVars, ghostVars>>

\* processStreamEvent: s.enricher.EnrichPayload; a blocked stream makes
\* processStreamEvent return nil.
Enrich(h, answers) ==
    /\ pc[h] = "enrich"
    /\ enrichments' = enrichments + 1
    /\ LET res == EnrichPayload(work[h].Payload, work[h].StreamerConfig, answers)
       IN  /\ enriched' = Enrichment(answers, res.blocked, res.calls)
           /\ IF res.blocked
              THEN /\ Respond(h, Processed)
                   /\ answered' = [answered EXCEPT ![EventKey(EventOf(h))] = @ + 1]
              ELSE /\ work' = [work EXCEPT ![h].Payload = res.payload,
                                           ![h].Channel = answers.Channel]
                   /\ pc' = [pc EXCEPT ![h] = "dispatch"]
                   /\ UNCHANGED <<req, lastResp, answered>>
    /\ UNCHANGED <<cfg, subs, otherVars, cache, payloads, received, reloads, configFile, retryVars>>
    /\ UNCHANGED <<posts, sent, window>>

\* processStreamEvent: the webhook URL, the initial Dispatch, AddRequest when it
\* failed, WritePayload, and the answer of handleTwitchWebhook.
DispatchInitial(h, outcome) ==
    /\ pc[h] = "dispatch"
    /\ LET webhookURL == ResolveWebhookURL(ConfigOf(cfg["server"]), work[h].StreamerConfig)
           k == EventKey(EventOf(h))
           dispatchReq == DispatchRequest(webhookURL,
                                          ResolveWebhookSigning(ConfigOf(cfg["server"]),
                                                                work[h].StreamerConfig),
                                          work[h].Payload, work[h].StreamerKey, 1, 0)
           result == Dispatch(webhookURL, outcome)
       IN  IF webhookURL = ""
           THEN /\ Respond(h, InternalServerError)
                /\ UNCHANGED <<queue, payloads, posts, sent, answered>>
           ELSE /\ posts' = [posts EXCEPT ![k] = @ + 1]
                /\ sent' = dispatchReq
                /\ queue' \in IF result.Success THEN {queue}
                              ELSE AddRequest(ConfigOf(cfg["retryManager"]), queue,
                                              dispatchReq)
                /\ payloads' = WritePayload(ConfigOf(cfg["outputWriter"]), payloads,
                                            work[h].Payload, result.Success, result.Error)
                /\ answered' = [answered EXCEPT ![k] = @ + 1]
                /\ Respond(h, Processed)
    /\ UNCHANGED <<cfg, subs, otherVars, cache, received, reloads, configFile>>
    /\ UNCHANGED <<stateFile, cacheFile, inflight, delivered, dropped>>
    /\ UNCHANGED <<enrichments, enriched, window>>

\* One time unit passes.
Elapse(t) == IF t <= Past THEN Past ELSE t - 1

ClockTick ==
    /\ \/ \E k \in DOMAIN cache : cache[k].ExpiresAt > Past
       \/ \E i \in 1..Len(queue) : queue[i].NextRetry > Past
       \/ \E i \in 1..Len(stateFile.queue) :
             ParseTime(stateFile.queue[i]["next_retry"]) > Past
       \/ \E i \in 1..Len(cacheFile) : ParseTime(cacheFile[i]["expires_at"]) > Past
       \/ \E k \in DOMAIN window : window[k] > Past
    /\ cache' = [k \in DOMAIN cache |-> [ExpiresAt |-> Elapse(cache[k].ExpiresAt)]]
    /\ queue' = [i \in 1..Len(queue) |->
                    [queue[i] EXCEPT !.NextRetry = Elapse(queue[i].NextRetry)]]
    /\ stateFile' =
          [queue |-> [i \in 1..Len(stateFile.queue) |->
                        [stateFile.queue[i] EXCEPT
                            !["next_retry"] = FormatTime(Elapse(ParseTime(@)))]]]
    /\ cacheFile' = [i \in 1..Len(cacheFile) |->
                        [cacheFile[i] EXCEPT
                            !["expires_at"] = FormatTime(Elapse(ParseTime(@)))]]
    /\ window' = [k \in DOMAIN window |-> Elapse(window[k])]
    /\ UNCHANGED <<handlerVars, cfg, subs, otherVars, inflight, payloads, received, reloads, configFile>>
    /\ UNCHANGED <<posts, sent, enrichments, enriched, answered, delivered, dropped>>

\* The request handlers and the clock.
Next ==
    \/ \E h \in Handlers, r \in Requests : Arrive(h, r)
    \/ \E h \in Handlers : HandleTwitchWebhook(h)
    \/ \E h \in Handlers : CheckDuplicate(h)
    \/ \E h \in Handlers : AddToCache(h)
    \/ \E h \in Handlers, channel \in ChannelOutcomes : Enrich(h, AnswersWith(channel))
    \/ \E h \in Handlers, outcome \in DispatchOutcomes : DispatchInitial(h, outcome)
    \/ ClockTick

Spec == Init /\ [][Next]_vars

\* ------------------------------------------------------------- the retry loop

\* processRetries on a tick of its ticker: processReadyRetries splits the queue
\* into the ready requests, each handed to a retryRequest goroutine, the
\* requests that wait, and the requests that are dropped.
ProcessReadyRetries ==
    /\ queue # << >>
    /\ LET config == ConfigOf(cfg["retryManager"])
           Ready(request) == IsReady(config, request)
           Remaining(request) == IsRemaining(config, request)
           Dropped(request) == ~Ready(request) /\ ~Remaining(request)
           readyRequests == SelectSeq(queue, Ready)
           droppedRequests == SelectSeq(queue, Dropped)
       IN  /\ queue' = SelectSeq(queue, Remaining)
           /\ inflight' = inflight (+) [r \in {readyRequests[i] : i \in 1..Len(readyRequests)}
                                         |-> Cardinality({i \in 1..Len(readyRequests) :
                                                            readyRequests[i] = r})]
           /\ dropped' = dropped \cup {droppedRequests[i].Payload.EventKey :
                                         i \in 1..Len(droppedRequests)}
    /\ UNCHANGED <<handlerVars, cfg, subs, otherVars, cache, payloads, received, reloads, configFile>>
    /\ UNCHANGED <<stateFile, cacheFile, delivered>>
    /\ UNCHANGED ghostVars

\* retryRequest: Dispatch, and AddRequest again when it failed.
RetryRequest(request, outcome) ==
    /\ BagIn(request, inflight)
    /\ inflight' = inflight (-) SetToBag({request})
    /\ posts' = [posts EXCEPT ![request.Payload.EventKey] = @ + 1]
    /\ sent' = request
    /\ IF Dispatch(request.WebhookURL, outcome).Success
       THEN /\ delivered' = delivered \cup {request.Payload.EventKey}
            /\ UNCHANGED queue
       ELSE /\ queue' \in AddRequest(ConfigOf(cfg["retryManager"]), queue, request)
            /\ UNCHANGED delivered
    /\ UNCHANGED <<handlerVars, cfg, subs, otherVars, cache, payloads, received, reloads, configFile>>
    /\ UNCHANGED <<stateFile, cacheFile, dropped>>
    /\ UNCHANGED <<enrichments, enriched, window, answered>>

\* The running retryRequest goroutines take a step.
RetryStep == \E request \in BagToSet(inflight), outcome \in DispatchOutcomes :
                RetryRequest(request, outcome)

\* A notification of an event that was not notified before, signed the way
\* the validator signs, arrives while no other is being handled.
ArriveFresh(r) ==
    /\ r.Body \in OnlineBodies
    /\ r.MessageSignature = GenerateSignature(Config0.Twitch.WebhookSecret, <<r.Body>>)
    /\ EventKey(Unmarshal(r.Body).Event) \notin DOMAIN window
    /\ Arrive("h1", r)

\* The program started with either retry policy.
InitRetry ==
    \E name \in {"c1", "c2"} :
        /\ cfg = [c \in Components |-> IF c = "watcher" THEN Nil ELSE name]
        /\ Serving(name)
        /\ sent = NoDispatchRequest
        /\ pc = [h \in Handlers |-> "idle"]
        /\ req = [h \in Handlers |-> NoRequest]
        /\ work = [h \in Handlers |-> NoWork]
        /\ cache = << >>
        /\ queue = << >>
        /\ inflight = EmptyBag
        /\ payloads = << >>
        /\ lastResp = NoResponse
        /\ received = 0
        /\ posts = [k \in AllKeys |-> 0]
        /\ enrichments = 0
        /\ enriched = NoEnrichment
        /\ window = << >>
        /\ answered = [k \in AllKeys |-> 0]
        /\ delivered = {}
        /\ dropped = {}
        /\ reloads = 0
        /\ configFile = cfg["server"]
        /\ UnitsIdle

\* Notifications handled one at a time while the upstream API is down, the
\* retry loop and the clock.
NextRetry ==
    \/ \E r \in Requests : ArriveFresh(r)
    \/ HandleTwitchWebhook("h1")
    \/ CheckDuplicate("h1")
    \/ AddToCache("h1")
    \/ Enrich("h1", AnswersDown)
    \/ \E outcome \in DispatchOutcomes : DispatchInitial("h1", outcome)
    \/ ProcessReadyRetries
    \/ RetryStep
    \/ ClockTick

SpecRetry == InitRetry /\ [][NextRetry]_vars

\* The ticker keeps ticking, every retryRequest goroutine returns, time passes.
SpecRetryFair ==
    /\ SpecRetry
    /\ WF_vars(ProcessReadyRetries)
    /\ WF_vars(RetryStep)
    /\ WF_vars(ClockTick)

\* --------------------------------------------------------------- hot reload

\* The versions the configuration file takes.
ConfigFiles == {"c1", "c2", "bad"}

\* The components handleConfigReload hands the new snapshot to.
ReloadedComponents ==
    {"server", "subscriptionManager", "dispatcher", "retryManager", "outputWriter",
     "enricher"}

\* Watcher.reloadConfig after the debounce, with handleConfigReload as its
\* reloadFunc.  file is what the configuration file holds, listOK tells
\* whether the upstream API lists the subscriptions (RefreshSubscriptions
\* fails otherwise), created the ids whose subscription it creates.
reloadConfig(file, listOK, created) ==
    /\ IF LoadConfig(file).err \/ ~validateConfig(ConfigOf(file))
       THEN UNCHANGED <<cfg, subs, subVars>>
       ELSE /\ callbackURL' = buildCallbackURL(ConfigOf(file))
            /\ lastSync' = Sync(lastSync.n + 1, "reload", listOK, ConfigOf(file),
                                callbackURL', subs, created, listener = "accepting")
            /\ IF ~listOK
               THEN /\ cfg' = [cfg EXCEPT !["server"] = file,
                                          !["subscriptionManager"] = file]
                    /\ UNCHANGED subs
               ELSE /\ cfg' = [c \in Components |->
                                 IF c \in ReloadedComponents \cup {"watcher"}
                                 THEN file ELSE cfg[c]]
                    /\ subs' = syncSubscriptions(ConfigOf(file), callbackURL', subs, created)

\* The configuration file changes to this version and the watcher reloads it.
ReloadConfig(file, listOK, created) ==
    /\ reloads < MaxReloads
    /\ reloads' = reloads + 1
    /\ configFile' = file
    /\ reloadConfig(file, listOK, created)
    /\ UNCHANGED <<handlerVars, cache, payloads, received, retryVars, ghostVars>>
    /\ UNCHANGED <<lifeVars, tokenVars, unitVars>>

\* The user ids a subscription can be asked for.
AllUserIDs == {"1", "3"}

\* Notifications handled one at a time while the configuration file changes.
NextReload ==
    \/ \E file \in ConfigFiles, listOK \in BOOLEAN, created \in SUBSET AllUserIDs :
          ReloadConfig(file, listOK, created)
    \/ \E r \in Requests : Arrive("h1", r)
    \/ HandleTwitchWebhook("h1")
    \/ CheckDuplicate("h1")
    \/ AddToCache("h1")
    \/ \E channel \in ChannelOutcomes : Enrich("h1", AnswersWith(channel))
    \/ \E outcome \in DispatchOutcomes : DispatchInitial("h1", outcome)
    \/ ClockTick

SpecReload == Init /\ [][NextReload]_vars

\* ---------------------------------------------------------- reload properties

\* C6: a reload is all-or-nothing: after it either every component holds the
\* new snapshot or every component holds the snapshot it held before.
C6_ReloadAllOrNothing ==
    [][reloads' # reloads =>
          \/ \A c \in ReloadedComponents : cfg'[c] = cfg[c]
          \/ \E file \in ConfigFiles : \A c \in ReloadedComponents : cfg'[c] = file]_vars

\* C7: after a successful reload a stream.online notification is classified
\* by the new snapshot: processed when the snapshot configures its streamer,
\* answered 410 when it does not.
C7_ClassificationUsesNewSnapshot ==
    [][(/\ Leaves("h1", "recv")
        /\ cfg["watcher"] # Nil
        /\ \A c \in ReloadedComponents : cfg[c] = cfg["watcher"]
        /\ req["h1"].Body \in OnlineBodies
        /\ req["h1"].MessageType = MessageTypeNotification
        /\ (lastResp'.status # 401 \/ pc'["h1"] = "check"))
          => IF findStreamerConfig(ConfigOf(cfg["watcher"]).Streamers,
                                   EventOf("h1").BroadcasterUserID,
                                   EventOf("h1").BroadcasterUserLogin) # {}
             THEN pc'["h1"] = "check"
             ELSE lastResp' = Gone /\ pc'["h1"] = "idle"]_vars

\* ------------------------------------------------------- request properties

\* The signature the specification asks for on the request handler h serves.
ExpectedTwitchSignature(h) ==
    TwitchSignature(Config0.Twitch.WebhookSecret, req[h].MessageID,
                    req[h].MessageTimestamp, req[h].Body)

\* Handler h's step lets its request past the MAC check.
PassesMacCheck(h) == Leaves(h, "recv") /\ (pc'[h] = "check" \/ lastResp'.status # 401)

\* Number of file-sink entries that carry the payload of event key k.
EntriesOf(k) == Cardinality({i \in 1..Len(payloads) : payloads[i].Payload.EventKey = k})

\* Some upstream tag equals a filter entry, whole string, ignoring case.
SomeTagEqualsFilterEntry(channel, tagFilter) ==
    /\ ~channel.err
    /\ \E i \in 1..Len(channel.Tags), j \in 1..Len(tagFilter) :
          ToLower(channel.Tags[i]) = ToLower(tagFilter[j])

\* C1: for notifications that share one fingerprint and arrive within the
\* dedup TTL of the first, at most one initial dispatch is made, whatever the
\* interleaving of their handlers.
C1_OneInitialDispatchPerFingerprint ==
    \A k \in DOMAIN window : window[k] >= 0 => posts[k] <= 1

\* C2: a request gets past the MAC check only if its signature header is the
\* HMAC-SHA256 of message id, timestamp and body under the configured secret.
C2_MacCoversIdTimestampBody ==
    [][\A h \in Handlers :
          PassesMacCheck(h) => req[h].MessageSignature = ExpectedTwitchSignature(h)]_vars

\* C3: a request whose signature is missing or is not the MAC of the request
\* is answered 401, and the dedup cache, the retry queue, the file sink, the
\* dispatches and the enrichment calls are what they were.
C3_InvalidSignatureChangesNothing ==
    [][\A h \in Handlers :
          (Leaves(h, "recv") /\ req[h].MessageSignature # ExpectedTwitchSignature(h))
             => /\ lastResp' = Unauthorized
                /\ pc'[h] = "idle"
                /\ UNCHANGED <<cache, queue, inflight, payloads, posts, enrichments>>]_vars

\* C8: of two notifications of one event handled one after the other within
\* the TTL, the first is answered 200 {"status":"processed"} and the second
\* 200 {"status":"ignored"}.
C8_SecondNotificationAnsweredIgnored ==
    [][\A h \in Handlers :
          LET k == EventKey(EventOf(h))
          IN  /\ (Leaves(h, "dispatch") /\ posts'[k] > posts[k]) => lastResp' = Processed
              /\ (Leaves(h, "check") /\ answered[k] > 0 /\ window[k] >= 0
                    /\ \A g \in Handlers \ {h} : pc[g] = "idle")
                   => lastResp' = Ignored]_vars

\* C9: for a streamer with a non-empty tag filter a dispatch is made only if
\* some upstream tag equals a filter entry ignoring case, also when the call
\* to the upstream API failed.
C9_TagFilterAuthoritative ==
    [][\A h \in Handlers :
          (Leaves(h, "dispatch") /\ posts' # posts
              /\ work[h].StreamerConfig.TagFilter # << >>)
             => SomeTagEqualsFilterEntry(work[h].Channel,
                                         work[h].StreamerConfig.TagFilter)]_vars

\* C10: every non-duplicate notification for a configured streamer that was
\* answered has exactly one file-sink entry, whatever the outcome was.
C10_OneFileSinkEntryPerNotification ==
    \A k \in AllKeys : EntriesOf(k) = answered[k]

\* --------------------------------------------------------- retry properties

\* The attempt limit of the retry manager's policy.
MaxAttemptsNow == ConfigOf(cfg["retryManager"]).Retry.MaxAttempts

\* The event with key k waits in the queue or is being retried.
Pending(k) ==
    \/ \E i \in 1..Len(queue) : queue[i].Payload.EventKey = k
    \/ \E request \in BagToSet(inflight) : request.Payload.EventKey = k

C5_FailedEventLeavesQueue ==
    /\ [](\A k \in AllKeys : posts[k] <= MaxAttemptsNow)
    /\ [](\A k \in dropped : k \notin delivered => posts[k] = MaxAttemptsNow)
    /\ \A k \in AllKeys :
          Pending(k) ~> (~Pending(k) /\ (k \in delivered \/ k \in dropped))
    /\ <>[](queue = << >> /\ inflight = EmptyBag)

\* An event was dropped after max_attempts failed dispatches while another
\* was delivered by a retry.
C5_DroppedAndDelivered ==
    /\ \E k \in dropped : posts[k] = MaxAttemptsNow /\ ~Pending(k)
    /\ \E k \in delivered : k \notin dropped /\ posts[k] >= 2

\* ------------------------------------------------------ dispatch properties

\* The streamers of the server's snapshot that the event of handler h matches
\* by user id, or by login ignoring case, and that have a destination.
ConfiguredWithDestination(h) ==
    LET config == ConfigOf(cfg["server"])
    IN  {k \in findStreamerConfig(config.Streamers, EventOf(h).BroadcasterUserID,
                                  EventOf(h).BroadcasterUserLogin) :
            ResolveWebhookURL(config, config.Streamers[k]) # ""}

\* C11: a non-duplicate notification for a configured streamer with a
\* resolvable destination is not answered an error, it is answered 200
\* processed whether its dispatch succeeds or fails, and a failed dispatch
\* puts exactly one retry item, with attempt 2, into the queue.
C11_ResponseIndependentOfDispatch ==
    [][\A h \in Handlers :
          /\ (Leaves(h, "add") /\ ConfiguredWithDestination(h) # {})
                => pc'[h] = "enrich"
          /\ (Leaves(h, "dispatch") /\ posts' # posts)
                => /\ lastResp' = Processed
                   /\ \/ queue' = queue
                      \/ /\ Len(queue') = Len(queue) + 1
                         /\ SubSeq(queue', 1, Len(queue)) = queue
                         /\ queue'[Len(queue')].Payload.EventKey = EventKey(EventOf(h))
                         /\ queue'[Len(queue')].Attempt = 2]_vars

\* ------------------------------------------------------ startup and shutdown

\* The variables of the request pipeline.
requestVars ==
    <<handlerVars, cfg, cache, payloads, received, reloads, configFile, ghostVars>>

\* A request a previous run of the program saved to the retry state file.
SavedRequest ==
    DispatchRequest(StreamerAlice.TargetWebhookURL,
                    ResolveWebhookSigning(Config1, StreamerAlice),
                    WebhookPayload("alice", StreamerAlice, Unmarshal("online_a1").Event),
                    "alice", 2, Past)

\* A cache file a previous run of the program saved: an entry that has
\* expired since and one that has not.
SavedCache ==
    <<MarshalEntry(EventKey(Unmarshal("online_a1").Event), [ExpiresAt |-> Past]),
      MarshalEntry(EventKey(Unmarshal("online_bob").Event), [ExpiresAt |-> 1])>>

\* Server.New has returned and Server.Start is called: nothing runs yet, the
\* retry state file and the cache file hold what the previous run saved.
InitBoot ==
    \E name \in {"c1", "c2"},
       saved \in {[state |-> NoState, cache |-> << >>],
                  [state |-> saveState(<<SavedRequest>>), cache |-> SavedCache]} :
        /\ cfg = [c \in Components |-> IF c = "watcher" THEN Nil ELSE name]
        /\ subs = {}
        /\ callbackURL = NewSubscriptionManager(ConfigOf(name))
        /\ lastSync = NoSync
        /\ stateFile = saved.state
        /\ cacheFile = saved.cache
        /\ main = "boot"
        /\ listener = "none"
        /\ ctxDone = FALSE
        /\ stopCh = FALSE
        /\ tasks = [t \in Tasks |-> "none"]
        /\ token = AppAccessToken(TokenLifetime)
        /\ tokenMutex = Nil
        /\ caller = [c \in Callers |-> "idle"]
        /\ sent = NoDispatchRequest
        /\ pc = [h \in Handlers |-> "idle"]
        /\ req = [h \in Handlers |-> NoRequest]
        /\ work = [h \in Handlers |-> NoWork]
        /\ cache = << >>
        /\ queue = << >>
        /\ inflight = EmptyBag
        /\ payloads = << >>
        /\ lastResp = NoResponse
        /\ received = 0
        /\ posts = [k \in AllKeys |-> 0]
        /\ enrichments = 0
        /\ enriched = NoEnrichment
        /\ window = << >>
        /\ answered = [k \in AllKeys |-> 0]
        /\ delivered = {}
        /\ dropped = {}
        /\ reloads = 0
        /\ configFile = cfg["server"]
        /\ UnitsIdle

\* Server.Start up to the start of the HTTP server: the config watcher, the
\* Twitch client, the enricher, the cache manager (whose loadCache adds the
\* entries of the cache file that have not expired), the retry manager (whose
\* loadState replaces the queue by that of the state file) and the output
\* writer are started.  When the Twitch client gets no token Server.Start returns the
\* error with only the watcher started.
StartManagers(ok) ==
    /\ main = "boot"
    /\ IF ok
       THEN /\ tasks' = [t \in Tasks |-> IF t = "reconcileLoop" THEN "none" ELSE "running"]
            /\ cache' = loadCache(cache, cacheFile)
            /\ queue' = loadState(stateFile)
            /\ main' = "listen"
       ELSE /\ tasks' = [tasks EXCEPT !["watcher"] = "running"]
            /\ main' = "failed"
            /\ UNCHANGED <<cache, queue>>
    /\ UNCHANGED <<handlerVars, cfg, payloads, received, reloads, configFile, ghostVars>>
    /\ UNCHANGED <<subs, subVars, tokenVars, unitVars>>
    /\ UNCHANGED <<stateFile, cacheFile, inflight, delivered, dropped, listener, ctxDone,
                   stopCh>>

\* Server.Start: the goroutine that runs ListenAndServe is started, and the
\* 100 ms sleep is over.
SpawnListener ==
    /\ main = "listen"
    /\ listener' = "starting"
    /\ main' = "sleep"
    /\ UNCHANGED <<requestVars, subs, subVars, tokenVars, unitVars, retryVars>>
    /\ UNCHANGED <<ctxDone, stopCh, tasks>>

\* The goroutine: ListenAndServe binds the address and accepts, or returns an
\* error that it sends to serverErrors.
ListenAndServe(ok) ==
    /\ listener = "starting"
    /\ listener' = IF ok THEN "accepting" ELSE "failed"
    /\ UNCHANGED <<requestVars, subs, subVars, tokenVars, unitVars, retryVars>>
    /\ UNCHANGED <<main, ctxDone, stopCh, tasks>>

\* SubscriptionManager.Start: syncSubscriptions, then the backgroundSync
\* goroutine; an error of syncSubscriptions makes Server.Start return it.
SubscriptionManagerStart(listOK, created) ==
    /\ main = "sleep"
    /\ lastSync' = Sync(lastSync.n + 1, "start", listOK,
                        ConfigOf(cfg["subscriptionManager"]), callbackURL, subs,
                        created, listener = "accepting")
    /\ IF ~lastSync'.err
       THEN /\ subs' = syncSubscriptions(ConfigOf(cfg["subscriptionManager"]),
                                         callbackURL, subs, created)
            /\ tasks' = [tasks EXCEPT !["reconcileLoop"] = "running"]
            /\ main' = "serving"
       ELSE /\ main' = "failed"
            /\ UNCHANGED <<subs, tasks>>
    /\ UNCHANGED <<requestVars, callbackURL, tokenVars, unitVars, retryVars>>
    /\ UNCHANGED <<listener, ctxDone, stopCh>>

\* backgroundSync on its timer.
BackgroundSync(listOK, created) ==
    /\ tasks["reconcileLoop"] = "running"
    /\ lastSync.n < MaxSyncs
    /\ lastSync' = Sync(lastSync.n + 1, "background", listOK,
                        ConfigOf(cfg["subscriptionManager"]), callbackURL, subs,
                        created, listener = "accepting")
    /\ subs' = IF listOK
               THEN syncSubscriptions(ConfigOf(cfg["subscriptionManager"]),
                                      callbackURL, subs, created)
               ELSE subs
    /\ UNCHANGED <<requestVars, callbackURL, tokenVars, unitVars, retryVars, lifeVars>>

\* The caller of Server.Start cancels the context.
CancelContext ==
    /\ ~ctxDone
    /\ ctxDone' = TRUE
    /\ UNCHANGED <<requestVars, subs, subVars, tokenVars, unitVars, retryVars>>
    /\ UNCHANGED <<main, listener, stopCh, tasks>>

\* Server.Start's select: serverErrors delivers the error of ListenAndServe,
\* and Server.Start returns it.
ServerError ==
    /\ main = "serving"
    /\ listener = "failed"
    /\ main' = "failed"
    /\ UNCHANGED <<requestVars, subs, subVars, tokenVars, unitVars, retryVars>>
    /\ UNCHANGED <<listener, ctxDone, stopCh, tasks>>

\* Server.Start's select: a SIGINT or SIGTERM (signalled), or ctx.Done();
\* httpServer.Shutdown closes the listener.
Shutdown(signalled) ==
    /\ main = "serving"
    /\ signalled \/ ctxDone
    /\ listener' = "closed"
    /\ main' = "stopRetry"
    /\ UNCHANGED <<requestVars, subs, subVars, tokenVars, unitVars, retryVars>>
    /\ UNCHANGED <<ctxDone, stopCh, tasks>>

\* retry.Manager.Stop: close(m.stopCh), before m.wg.Wait().
RetryManagerStop ==
    /\ main = "stopRetry"
    /\ stopCh' = TRUE
    /\ main' = "waitRetry"
    /\ UNCHANGED <<requestVars, subs, subVars, tokenVars, unitVars, retryVars>>
    /\ UNCHANGED <<listener, ctxDone, tasks>>

\* retry.Manager.Stop after m.wg.Wait(): saveState; then the Stop of the cache
\* manager (saveCache), the Twitch client, the output writer and the config
\* watcher, which closes the watcher's done channel.
StopManagers ==
    /\ main = "waitRetry"
    /\ tasks["retryLoop"] = "exited"
    /\ stateFile' = saveState(queue)
    /\ cacheFile' \in saveCache(cache)
    /\ main' = "stopped"
    /\ UNCHANGED <<requestVars, subs, subVars, tokenVars, unitVars>>
    /\ UNCHANGED <<queue, inflight, delivered, dropped, listener, ctxDone, stopCh, tasks>>

\* Whether the loop of the background goroutine t returns: processRetries on
\* ctx.Done() or stopCh, backgroundSync on ctx.Done(), watchLoop on ctx.Done()
\* or done; the cleanupRoutine of the cache manager and of the enricher range
\* over their ticker and have no way out.
MayExit(t) ==
    CASE t = "retryLoop" -> ctxDone \/ stopCh
      [] t = "reconcileLoop" -> ctxDone
      [] t = "watcher" -> ctxDone \/ main = "stopped"
      [] OTHER -> FALSE

\* The background goroutine t returns.
TaskExit(t) ==
    /\ tasks[t] = "running"
    /\ MayExit(t)
    /\ tasks' = [tasks EXCEPT ![t] = "exited"]
    /\ UNCHANGED <<requestVars, subs, subVars, tokenVars, unitVars, retryVars>>
    /\ UNCHANGED <<main, listener, ctxDone, stopCh>>

\* processRetries on a tick of its ticker.
RetryTick ==
    /\ tasks["retryLoop"] = "running"
    /\ ProcessReadyRetries

\* The listener accepts a notification.
Accept(r) ==
    /\ listener = "accepting"
    /\ ArriveFresh(r)

\* Startup, the reconciliation loop, the retry loop, the clock, and shutdown.
NextLife ==
    \/ \E ok \in BOOLEAN : StartManagers(ok)
    \/ SpawnListener
    \/ \E ok \in BOOLEAN : ListenAndServe(ok)
    \/ \E listOK \in BOOLEAN, created \in SUBSET AllUserIDs :
          SubscriptionManagerStart(listOK, created)
    \/ \E listOK \in BOOLEAN, created \in SUBSET AllUserIDs :
          BackgroundSync(listOK, created)
    \/ CancelContext
    \/ ServerError
    \/ \E signalled \in BOOLEAN : Shutdown(signalled)
    \/ RetryManagerStop
    \/ StopManagers
    \/ \E t \in Tasks : TaskExit(t)
    \/ RetryTick
    \/ RetryStep
    \/ ClockTick

SpecLife == InitBoot /\ [][NextLife]_vars

\* Every goroutine that can take a step takes it, and Server.Start goes on.
SpecLifeFair ==
    /\ SpecLife
    /\ \A t \in Tasks : WF_vars(TaskExit(t))
    /\ WF_vars(RetryManagerStop)
    /\ WF_vars(StopManagers)

\* Notifications handled one at a time while the upstream API is down, the
\* retry loop, the clock, and a shutdown by signal.
NextPersist ==
    \/ \E r \in Requests : Accept(r)
    \/ HandleTwitchWebhook("h1")
    \/ CheckDuplicate("h1")
    \/ AddToCache("h1")
    \/ Enrich("h1", AnswersDown)
    \/ \E outcome \in DispatchOutcomes : DispatchInitial("h1", outcome)
    \/ RetryTick
    \/ RetryStep
    \/ ClockTick
    \/ Shutdown(TRUE)
    \/ RetryManagerStop
    \/ TaskExit("retryLoop")
    \/ StopManagers

SpecPersist == InitRetry /\ [][NextPersist]_vars

\* ------------------------------------------------------------- reconciliation

\* The versions of the configuration file the subscription manager is given.
SubsFiles == {"c0", "c1", "c2", "c3", "c4"}

\* The subscriptions upstream can hold before the program starts: an enabled
\* one for alice, a revoked one and one of another type for carol, and an
\* enabled one for a broadcaster no configuration names.
UpstreamSubs ==
    {EventSubSubscription("stream.online", SubscriptionStatusEnabled, "1", <<"old">>),
     EventSubSubscription("stream.online", SubscriptionStatusAuthorizationRevoked, "3",
                          <<"old">>),
     EventSubSubscription("stream.offline", SubscriptionStatusEnabled, "3", <<"old">>),
     EventSubSubscription("stream.online", SubscriptionStatusEnabled, "9", <<"old">>)}

\* Server.Start is about to start the subscription manager; the listener
\* accepts connections.
InitSubs ==
    \E name \in SubsFiles, current \in {{}, UpstreamSubs} :
        /\ cfg = [c \in Components |-> IF c = "watcher" THEN Nil ELSE name]
        /\ subs = current
        /\ callbackURL = NewSubscriptionManager(ConfigOf(name))
        /\ lastSync = NoSync
        /\ stateFile = NoState
        /\ cacheFile = << >>
        /\ main = "sleep"
        /\ listener = "accepting"
        /\ ctxDone = FALSE
        /\ stopCh = FALSE
        /\ tasks = [t \in Tasks |-> IF t = "reconcileLoop" THEN "none" ELSE "running"]
        /\ token = AppAccessToken(TokenLifetime)
        /\ tokenMutex = Nil
        /\ caller = [c \in Callers |-> "idle"]
        /\ sent = NoDispatchRequest
        /\ pc = [h \in Handlers |-> "idle"]
        /\ req = [h \in Handlers |-> NoRequest]
        /\ work = [h \in Handlers |-> NoWork]
        /\ cache = << >>
        /\ queue = << >>
        /\ inflight = EmptyBag
        /\ payloads = << >>
        /\ lastResp = NoResponse
        /\ received = 0
        /\ posts = [k \in AllKeys |-> 0]
        /\ enrichments = 0
        /\ enriched = NoEnrichment
        /\ window = << >>
        /\ answered = [k \in AllKeys |-> 0]
        /\ delivered = {}
        /\ dropped = {}
        /\ reloads = 0
        /\ configFile = cfg["server"]
        /\ UnitsIdle

\* Upstream changes the status of a subscription: the callback of a new one
\* is verified.
UpstreamStatusChange(sub) ==
    /\ sub \in subs
    /\ sub.Status = SubscriptionStatusWebhookCallbackVerificationPending
    /\ subs' = (subs \ {sub}) \cup {[sub EXCEPT !.Status = SubscriptionStatusEnabled]}
    /\ UNCHANGED <<requestVars, subVars, tokenVars, unitVars, retryVars, lifeVars>>

\* The subscription manager: its start, its background loop, the reloads of
\* the configuration, and upstream, which creates every subscription it is
\* asked for or none.
NextSubs ==
    \/ \E listOK \in BOOLEAN, created \in {{}, AllUserIDs} :
          SubscriptionManagerStart(listOK, created)
    \/ \E listOK \in BOOLEAN, created \in {{}, AllUserIDs} :
          BackgroundSync(listOK, created)
    \/ \E file \in {"c0", "c1", "c7", "bad", "garbage"}, listOK \in BOOLEAN,
          created \in {{}, AllUserIDs} :
          ReloadConfig(file, listOK, created)
    \/ \E sub \in subs : UpstreamStatusChange(sub)

SpecSubs == InitSubs /\ [][NextSubs]_vars

\* --------------------------------------------------------- startup properties

\* C12: the retry queue is persisted on every enqueue and every dequeue:
\* the retry state file holds exactly the in-memory queue once the retry
\* manager has loaded it.
C12_StateFileHoldsQueue == stateFile = saveState(queue)

\* ------------------------------------------------- reconciliation properties

\* The user ids a syncSubscriptions call posted a request for.
CreatedFor(sync) == {c.Condition.broadcaster_user_id : c \in sync.creates}

\* The list holds a stream.online subscription in status enabled for u.
HoldsEnabledOnline(list, u) ==
    \E sub \in list : /\ sub.Type = "stream.online"
                      /\ sub.Status = SubscriptionStatusEnabled
                      /\ sub.Condition.broadcaster_user_id = u

\* C13: a reconciliation that got the upstream list asks a subscription for
\* u exactly when u is the non-empty user_id of a streamer of the
\* configuration in force and the list holds no enabled stream.online
\* subscription for u; it removes no subscription, and every subscription it
\* adds is for a configured user id.
C13_CreatesExactlyTheMissing ==
    [][(lastSync'.n # lastSync.n /\ lastSync'.listOK) =>
          LET streamers == ConfigOf(cfg'["subscriptionManager"]).Streamers
              configured == {streamers[k].UserID : k \in DOMAIN streamers}
          IN  /\ lastSync'.listed = subs
              /\ \A u \in AllUserIDs \cup {"", "9"} :
                    u \in CreatedFor(lastSync')
                       <=> (u \in configured /\ u # "" /\ ~HoldsEnabledOnline(subs, u))
              /\ CreatedFor(lastSync') \subseteq AllUserIDs
              /\ subs \subseteq subs'
              /\ \A sub \in subs' \ subs :
                    sub.Condition.broadcaster_user_id \in configured \ {""}]_vars

\* A reconciliation asked a subscription for carol, whose listed stream.online
\* subscription is revoked, asked none for alice, whose subscription is
\* enabled, nor for the broadcaster outside the configuration, and skipped
\* bob, who has no user id.
C13_CreatedForRevokedOnly ==
    /\ lastSync.n > 0
    /\ lastSync.listOK
    /\ cfg["subscriptionManager"] = "c3"
    /\ Config3.Streamers["bob"].UserID = ""
    /\ CreatedFor(lastSync) = {"3"}
    /\ HoldsEnabledOnline(lastSync.listed, "1")
    /\ HoldsEnabledOnline(lastSync.listed, "9")
    /\ \E sub \in lastSync.listed :
          /\ sub.Condition.broadcaster_user_id = "3"
          /\ sub.Type = "stream.online"
          /\ sub.Status = SubscriptionStatusAuthorizationRevoked
    /\ \E sub \in subs :
          /\ sub.Condition.broadcaster_user_id = "3"
          /\ sub.Status = SubscriptionStatusWebhookCallbackVerificationPending

\* C14: every createSubscription request, at startup and after a reload,
\* carries the callback URL resolved from the configuration in force:
\* incoming_webhook_url, else the URL built from external_domain, the TLS
\* domains or the listen address.
C14_CallbackFromConfigInForce ==
    [][lastSync'.n # lastSync.n =>
          \A c \in lastSync'.creates :
             c.Transport.Callback =
                NewSubscriptionManager(ConfigOf(cfg'["subscriptionManager"]))]_vars

\* The same for the reconciliation of SubscriptionManager.Start alone.
C14_CallbackAtStartup ==
    [][(lastSync'.n # lastSync.n /\ lastSync'.by = "start" /\ reloads = 0) =>
          \A c \in lastSync'.creates :
             c.Transport.Callback =
                NewSubscriptionManager(ConfigOf(cfg'["subscriptionManager"]))]_vars

\* ------------------------------------------------------- lifecycle properties

\* C15: at startup the subscriptions are listed and created only while the
\* listener is accepting connections.
C15_SyncAfterListenerAccepts ==
    (lastSync.n > 0 /\ lastSync.by = "start") => lastSync.listening

\* Shutdown was signalled, or the context was cancelled.
ShutdownRequested == ctxDone \/ main \in {"stopRetry", "waitRetry", "stopped"}

\* C16: after the context is cancelled or shutdown is signalled, every
\* background goroutine that was started eventually returns.
C16_BackgroundTasksExit ==
    ShutdownRequested ~> (\A t \in Tasks : tasks[t] # "running")

\* --------------------------------------------------------------- twitch.Client

\* A validity test without the 5 minutes.
TokenValidWithoutBuffer(t) == t.present /\ t.ExpiresAt > 0

\* ensureValidToken: c.token != nil && time.Now().Before(c.token.ExpiresAt.Add(-5*time.Minute))
TokenValid(t) == t.present /\ t.ExpiresAt > RefreshBuffer

\* Client.Start has called loadToken: the client holds no token, or the token
\* the token file held, whatever its expiry.
InitToken ==
    \E loaded \in {NoToken} \cup {AppAccessToken(e) : e \in Past..TokenLifetime} :
        /\ token = loaded
        /\ tokenMutex = Nil
        /\ caller = [c \in Callers |-> "idle"]
        /\ cfg = [c \in Components |-> IF c = "watcher" THEN Nil ELSE "c0"]
        /\ subs = {}
        /\ callbackURL = NewSubscriptionManager(Config0)
        /\ lastSync = NoSync
        /\ stateFile = NoState
        /\ cacheFile = << >>
        /\ main = "boot"
        /\ listener = "none"
        /\ ctxDone = FALSE
        /\ stopCh = FALSE
        /\ tasks = [t \in Tasks |-> IF t = "watcher" THEN "running" ELSE "none"]
        /\ sent = NoDispatchRequest
        /\ pc = [h \in Handlers |-> "idle"]
        /\ req = [h \in Handlers |-> NoRequest]
        /\ work = [h \in Handlers |-> NoWork]
        /\ cache = << >>
        /\ queue = << >>
        /\ inflight = EmptyBag
        /\ payloads = << >>
        /\ lastResp = NoResponse
        /\ received = 0
        /\ posts = [k \in AllKeys |-> 0]
        /\ enrichments = 0
        /\ enriched = NoEnrichment
        /\ window = << >>
        /\ answered = [k \in AllKeys |-> 0]
        /\ delivered = {}
        /\ dropped = {}
        /\ reloads = 0
        /\ configFile = cfg["server"]
        /\ UnitsIdle

\* What the steps of the client leave alone.
clientFrame == <<requestVars, subs, subVars, retryVars, lifeVars, unitVars>>

\* An API method (GetChannelInfo, GetUserInfoByLogin, ...) is called by c and
\* calls ensureValidToken, which waits for tokenMutex.
CallAPI(c) ==
    /\ caller[c] = "idle"
    /\ caller' = [caller EXCEPT ![c] = "lock"]
    /\ UNCHANGED <<token, tokenMutex, clientFrame>>

\* ensureValidToken: c.tokenMutex.Lock()
LockTokenMutex(c) ==
    /\ caller[c] = "lock"
    /\ tokenMutex = Nil
    /\ tokenMutex' = c
    /\ caller' = [caller EXCEPT ![c] = "check"]
    /\ UNCHANGED <<token, clientFrame>>

\* ensureValidToken: the test of the token; a valid one makes it return nil
\* (the deferred Unlock runs), otherwise getAppAccessToken posts the token
\* request, with the mutex held.
CheckToken(c) ==
    /\ caller[c] = "check"
    /\ IF TokenValid(token)
       THEN /\ caller' = [caller EXCEPT ![c] = "call"]
            /\ tokenMutex' = Nil
       ELSE /\ caller' = [caller EXCEPT ![c] = "request"]
            /\ UNCHANGED tokenMutex
    /\ UNCHANGED <<token, clientFrame>>

\* getAppAccessToken: the answer to the token request.  A 200 gives the new
\* token, anything else makes ensureValidToken, and the API method, return
\* the error; the deferred Unlock runs.
TokenResponse(c, ok) ==
    /\ caller[c] = "request"
    /\ tokenMutex' = Nil
    /\ IF ok
       THEN /\ token' = AppAccessToken(TokenLifetime)
            /\ caller' = [caller EXCEPT ![c] = "call"]
       ELSE /\ caller' = [caller EXCEPT ![c] = "idle"]
            /\ UNCHANGED token
    /\ UNCHANGED clientFrame

\* The API method sends its request and returns.
SendAPIRequest(c) ==
    /\ caller[c] = "call"
    /\ caller' = [caller EXCEPT ![c] = "idle"]
    /\ UNCHANGED <<token, tokenMutex, clientFrame>>

\* Five minutes pass.
TokenTick ==
    /\ token.present
    /\ token.ExpiresAt > Past
    /\ token' = [token EXCEPT !.ExpiresAt = Elapse(token.ExpiresAt)]
    /\ UNCHANGED <<tokenMutex, caller, clientFrame>>

\* The callers of the upstream API, and the clock.
NextToken ==
    \/ \E c \in Callers : CallAPI(c)
    \/ \E c \in Callers : LockTokenMutex(c)
    \/ \E c \in Callers : CheckToken(c)
    \/ \E c \in Callers, ok \in BOOLEAN : TokenResponse(c, ok)
    \/ \E c \in Callers : SendAPIRequest(c)
    \/ TokenTick

SpecToken == InitToken /\ [][NextToken]_vars

\* ----------------------------------------------------------- client properties

\* C17: no caller holds the token mutex while its token request is in flight.
C17_NoLockAcrossTokenRequest ==
    \A c \in Callers : tokenMutex = c => caller[c] # "request"

\* The callers whose token request is in flight.
TokenRequestsInFlight == {c \in Callers : caller[c] = "request"}

\* C18: ensureValidToken requests a token if and only if the client holds
\* none or the one it holds is within 5 minutes of its expiry or past it; an
\* API request is sent only with a token that is not; and at most one token
\* request is in flight.
C18_RefreshIffNeededOneInFlight ==
    [][/\ \A c \in Callers :
            /\ (caller[c] = "check" /\ caller'[c] # "check")
                  => (caller'[c] = "request"
                         <=> (~token.present \/ token.ExpiresAt <= RefreshBuffer))
            /\ (caller[c] # "call" /\ caller'[c] = "call")
                  => (token'.present /\ token'.ExpiresAt > RefreshBuffer)
       /\ Cardinality(TokenRequestsInFlight') <= 1]_vars

\* A caller's token request is in flight for a token that has exactly 5
\* minutes left, while the two other callers wait for the mutex.
C18_RefreshAtBufferOthersWait ==
    /\ token.present
    /\ token.ExpiresAt = RefreshBuffer
    /\ caller["enricher"] = "request"
    /\ caller["subscriptionManager"] = "lock"
    /\ caller["resolver"] = "lock"

\* ------------------------------------------------------ streamer properties

\* The streamers of the snapshot the event matches: by exact user id, else by
\* login without regard to letter case.
Matched(config, ev) ==
    LET byID == {k \in DOMAIN config.Streamers :
                    config.Streamers[k].UserID = ev.BroadcasterUserID}
        byLogin == {k \in DOMAIN config.Streamers :
                       EqualFold(config.Streamers[k].Login, ev.BroadcasterUserLogin)}
    IN  IF byID # {} THEN byID ELSE byLogin

\* C19: classification and dispatch use the same match, by exact user id,
\* else by login without regard to letter case: an authentic stream.online
\* notification goes on to the dedup check exactly when its event matches a
\* streamer, and the event of a notification that got there is then handed
\* to enrichment and dispatch as the event of a streamer it matches.
C19_SameMatchForClassificationAndDispatch ==
    [][\A h \in Handlers :
          /\ (/\ PassesMacCheck(h)
              /\ req[h].MessageType = MessageTypeNotification
              /\ req[h].Body \in OnlineBodies)
                => (pc'[h] = "check"
                       <=> Matched(ConfigOf(cfg["processor"]), EventOf(h)) # {})
          /\ Leaves(h, "add")
                => /\ pc'[h] = "enrich"
                   /\ work'[h].StreamerKey \in Matched(ConfigOf(cfg["server"]), EventOf(h))
          /\ (Leaves(h, "dispatch") /\ posts' # posts)
                => /\ sent'.StreamerKey \in Matched(ConfigOf(cfg["server"]), EventOf(h))
                   /\ sent'.WebhookURL # ""]_vars

\* The classification conjunct of C19 alone.
C19_ClassificationMatch ==
    [][\A h \in Handlers :
          (/\ PassesMacCheck(h)
           /\ req[h].MessageType = MessageTypeNotification
           /\ req[h].Body \in OnlineBodies)
             => (pc'[h] = "check"
                    <=> Matched(ConfigOf(cfg["processor"]), EventOf(h)) # {})]_vars

\* ------------------------------------------------ destination of a dispatch

\* The program started with alice, who has a target of her own, and carol, who
\* has none, with the global fallback (c3) or without it (c4), or whose target
\* is a URL no request can be sent to (c5).
InitDest ==
    \E name \in {"c3", "c4", "c5"} :
        /\ cfg = [c \in Components |-> IF c = "watcher" THEN Nil ELSE name]
        /\ Serving(name)
        /\ sent = NoDispatchRequest
        /\ pc = [h \in Handlers |-> "idle"]
        /\ req = [h \in Handlers |-> NoRequest]
        /\ work = [h \in Handlers |-> NoWork]
        /\ cache = << >>
        /\ queue = << >>
        /\ inflight = EmptyBag
        /\ payloads = << >>
        /\ lastResp = NoResponse
        /\ received = 0
        /\ posts = [k \in AllKeys |-> 0]
        /\ enrichments = 0
        /\ enriched = NoEnrichment
        /\ window = << >>
        /\ answered = [k \in AllKeys |-> 0]
        /\ delivered = {}
        /\ dropped = {}
        /\ reloads = 0
        /\ configFile = cfg["server"]
        /\ UnitsIdle

SpecDest == InitDest /\ [][NextRetry]_vars

\* The request was handed to the dispatcher for this URL with this secret,
\* header and hashing.
SentTo(request, url, secret, header, hashing) ==
    /\ request.WebhookURL = url
    /\ request.WebhookSecret = secret
    /\ request.WebhookHeader = header
    /\ request.WebhookHashing = hashing

\* C20: the dispatch goes to the streamer's own target URL, with the
\* streamer's secret, header and hashing, when that URL is set; otherwise to
\* the global webhook with the global secret, header and hashing when the
\* global webhook is enabled; otherwise the notification is answered 500,
\* nothing is dispatched and no retry item is created.
C20_DestinationResolution ==
    [][Leaves("h1", "dispatch") =>
          LET config == ConfigOf(cfg["server"])
              s == work["h1"].StreamerConfig
              g == config.GlobalWebhook
              k == EventKey(EventOf("h1"))
          IN  IF s.TargetWebhookURL # ""
              THEN /\ posts'[k] = posts[k] + 1
                   /\ SentTo(sent', s.TargetWebhookURL, s.TargetWebhookSecret,
                             s.TargetWebhookHeader, s.TargetWebhookHashing)
              ELSE IF g.Enabled /\ g.URL # ""
                   THEN /\ posts'[k] = posts[k] + 1
                        /\ SentTo(sent', g.URL, g.TargetWebhookSecret,
                                  g.TargetWebhookHeader, g.TargetWebhookHashing)
                   ELSE /\ lastResp' = InternalServerError
                        /\ posts' = posts
                        /\ sent' = sent
                        /\ queue' = queue
                        /\ inflight' = inflight]_vars

\* carol's event, who has a secret but no target URL of her own, was
\* dispatched to the global webhook with the global secret, failed there and
\* waits in the retry queue for the same destination.
C20_CarolSentToGlobalWebhook ==
    /\ cfg["server"] = "c3"
    /\ sent.StreamerKey = "carol"
    /\ SentTo(sent, Config3.GlobalWebhook.URL, "global_secret", "X-Hub-Signature-256",
              "SHA-256")
    /\ \E i \in 1..Len(queue) :
          /\ queue[i].StreamerKey = "carol"
          /\ queue[i].WebhookURL = Config3.GlobalWebhook.URL
          /\ queue[i].WebhookSecret = "global_secret"

\* carol's notification was answered 500 without a dispatch and without a
\* retry item: she has no target URL and the global webhook is disabled.
C20_CarolRefused ==
    /\ cfg["server"] = "c4"
    /\ lastResp = InternalServerError
    /\ pc["h1"] = "idle"
    /\ EventKey(Unmarshal("online_carol").Event) \in DOMAIN cache
    /\ posts[EventKey(Unmarshal("online_carol").Event)] = 0
    /\ \A i \in 1..Len(queue) : queue[i].StreamerKey # "carol"

\* ------------------------------------------------------ permanent failures

\* C21: a dispatch that fails because no request can be sent to its
\* destination (a malformed URL) is never retried: no retry item for such a
\* destination is in the retry queue or handed to a retry.
C21_PermanentFailureNeverRetried ==
    /\ \A i \in 1..Len(queue) : ~NoRequestPossible(queue[i].WebhookURL)
    /\ \A request \in BagToSet(inflight) : ~NoRequestPossible(request.WebhookURL)

\* ---------------------------------------------------------- response properties

C22_ChallengeAnswered ==
    lastResp = Response("text/plain", 200, "<c&d>")

\* C23: a request that got past the MAC check and whose body is not valid
\* JSON is answered 400.
C23_MalformedBodyAnswered400 ==
    [][\A h \in Handlers :
          (PassesMacCheck(h) /\ ~Unmarshal(req[h].Body).ok)
             => lastResp'.status = 400 /\ pc'[h] = "idle"]_vars

\* ------------------------------------------------------------------ enrichment

\* Notifications handled one at a time, with every combination of answers to
\* the calls of EnrichPayload.
NextEnrich ==
    \/ \E r \in Requests : ArriveFresh(r)
    \/ HandleTwitchWebhook("h1")
    \/ CheckDuplicate("h1")
    \/ AddToCache("h1")
    \/ \E user \in UserOutcomes, image \in ImageOutcomes, channel \in ChannelOutcomes,
          followers \in FollowersOutcomes :
          Enrich("h1", Answers(user, image, channel, followers))
    \/ \E outcome \in DispatchOutcomes : DispatchInitial("h1", outcome)

SpecEnrich == InitRetry /\ [][NextEnrich]_vars

\* The tag filter of the streamer handler h works for rejects the channel
\* these answers describe: the channel was obtained, the filter is not empty,
\* and no tag of the channel equals one of its entries ignoring case.
TagFilterRejects(h, answers) ==
    /\ ~answers.Channel.err
    /\ work[h].StreamerConfig.TagFilter # << >>
    /\ ~SomeTagEqualsFilterEntry(answers.Channel, work[h].StreamerConfig.TagFilter)

\* C24: when the tag filter rejects the stream, EnrichPayload returns blocked,
\* the notification is answered 200 {"status":"processed"}, no Dispatch call
\* is made and no retry item is enqueued.
C24_BlockedAnsweredProcessedNoDispatch ==
    [][\A h \in Handlers :
          (Leaves(h, "enrich") /\ TagFilterRejects(h, enriched'.Answers))
             => /\ enriched'.Blocked
                /\ lastResp' = Response("application/json", 200, "{\"status\":\"processed\"}")
                /\ pc'[h] = "idle"
                /\ UNCHANGED <<posts, sent, queue, inflight>>]_vars

\* alice's stream, whose channel has the tag Music only, was blocked by her
\* filter Gaming after the other calls had succeeded: the notification was
\* answered processed, its event is in the dedup cache, nothing was
\* dispatched and the retry queue is empty.
C24_AliceBlocked ==
    /\ enriched.Blocked
    /\ enriched.Answers.Channel = [err |-> FALSE, Tags |-> <<"Music">>]
    /\ ~enriched.Answers.User.err
    /\ lastResp = Processed
    /\ pc["h1"] = "idle"
    /\ EventKey(Unmarshal("online_a1").Event) \in DOMAIN cache
    /\ posts[EventKey(Unmarshal("online_a1").Event)] = 0
    /\ sent = NoDispatchRequest
    /\ queue = << >>

\* ------------------------------------------------------------ failed reloads

\* The versions of the configuration file that are not TOML or break a
\* validation rule.
InvalidFiles == {"bad", "garbage"}

\* C25: when the changed configuration file fails to load or fails
\* validation, no component is handed a snapshot, the subscription manager
\* keeps its callback URL and runs no reconciliation, and every component
\* keeps the snapshot it held before the attempt.
C25_FailedReloadChangesNothing ==
    [][(reloads' # reloads /\ configFile' \in InvalidFiles)
          => UNCHANGED <<cfg, subs, callbackURL, lastSync>>]_vars

\* After a reload that installed c1 in every component, the file was replaced
\* by one that is not TOML, and every component still holds c1.
C25_FailedReloadAfterGoodOne ==
    /\ reloads = 2
    /\ configFile = "garbage"
    /\ \A c \in ReloadedComponents \cup {"watcher"} : cfg[c] = "c1"
    /\ lastSync.by = "reload"
    /\ callbackURL = buildCallbackURL(Config1)

\* --------------------------------------------------------- startup failures

\* C26: a failure of the upstream API at startup is not fatal: Server.Start
\* returns an error only when the listener could not bind its address (a
\* configuration that fails validation never gets as far as Server.Start).
C26_UpstreamFailureNotFatal == main = "failed" => listener = "failed"

\* -------------------------------------------------------------------- backoff

\* The attempt numbers of the retry that is running when the check starts.
StartAttempts == {2, ManyAttempts - 2, ManyAttempts - 1}

\* The program runs with the policy of many attempts; a retry of alice's
\* event is running after that many failed attempts.
InitBackoff ==
    \E a \in StartAttempts :
        /\ cfg = [c \in Components |-> IF c = "watcher" THEN Nil ELSE "c6"]
        /\ Serving("c6")
        /\ sent = NoDispatchRequest
        /\ pc = [h \in Handlers |-> "idle"]
        /\ req = [h \in Handlers |-> NoRequest]
        /\ work = [h \in Handlers |-> NoWork]
        /\ cache = << >>
        /\ queue = << >>
        /\ inflight = SetToBag({[SavedRequest EXCEPT !.Attempt = a]})
        /\ payloads = << >>
        /\ lastResp = NoResponse
        /\ received = 0
        /\ posts = [k \in AllKeys |-> 0]
        /\ enrichments = 0
        /\ enriched = NoEnrichment
        /\ window = << >>
        /\ answered = [k \in AllKeys |-> 0]
        /\ delivered = {}
        /\ dropped = {}
        /\ reloads = 0
        /\ configFile = cfg["server"]
        /\ UnitsIdle

\* The retries of the request run; no notification arrives meanwhile.
NextBackoff ==
    \/ ProcessReadyRetries
    \/ RetryStep
    \/ ClockTick

SpecBackoff == InitBackoff /\ [][NextBackoff]_vars

RECURSIVE Backoff(_, _)
\* backoff(n) = min(initial_delay * factor^(n-1), max_delay), for a factor of
\* at least 1.
Backoff(retry, n) ==
    IF n <= 1 THEN Min(retry.InitialDelay, retry.MaxDelay)
    ELSE Min(Backoff(retry, n - 1) * retry.BackoffFactor, retry.MaxDelay)

\* C27: every enqueue puts one item at the end of the retry queue whose
\* attempt is one more than the attempt of the dispatch that failed (2 after
\* a failed initial dispatch) and whose next_attempt_at is now +
\* min(initial_delay * factor^(attempt-1), max_delay), which is at most now +
\* max_delay.
C27_EnqueueBackoff ==
    [][Len(queue') = Len(queue) + 1 =>
          LET item == queue'[Len(queue')]
              retry == ConfigOf(cfg["retryManager"]).Retry
          IN  /\ SubSeq(queue', 1, Len(queue)) = queue
              /\ item.NextRetry = Backoff(retry, item.Attempt)
              /\ item.NextRetry <= retry.MaxDelay
              /\ Leaves("h1", "dispatch") => item.Attempt = 2
              /\ inflight' # inflight =>
                    \E request \in BagToSet(inflight) :
                       /\ inflight' = inflight (-) SetToBag({request})
                       /\ item = [request EXCEPT !.Attempt = request.Attempt + 1,
                                                 !.NextRetry = item.NextRetry]]_vars

\* ---------------------------------------------------------------- persistence

\* The entries of the map whose expiry is still ahead.
Unexpired(entries) ==
    [k \in {key \in DOMAIN entries : entries[key].ExpiresAt > 0} |-> entries[k]]

\* A load of the retry state file yields the queue in memory, item by item
\* (destination, secret, payload, attempt, next retry time), and a load of the
\* cache file into an empty cache yields the entries in memory except those
\* whose expiry has been reached.
LoadYieldsMemory ==
    /\ loadState(stateFile) = queue
    /\ loadCache(<< >>, cacheFile) = Unexpired(cache)

\* C28: persisting and then loading is a round trip.  A load of the files
\* right after the save of a shutdown yields what was saved, and it still does
\* whatever time passes before the load: the retry items are the same, the
\* cache entries are the saved ones minus those that have expired by then.
C28_SaveLoadRoundTrip ==
    [][/\ (main # "stopped" /\ main' = "stopped") => LoadYieldsMemory'
       /\ (main = "stopped" /\ UNCHANGED <<pc, inflight>> /\ LoadYieldsMemory)
             => LoadYieldsMemory']_vars

\* The program stopped with a request in the retry queue and with an expired
\* and an unexpired entry in the cache.
C28_SavedQueueAndCache ==
    /\ main = "stopped"
    /\ Len(queue) > 0
    /\ Len(stateFile.queue) = Len(queue)
    /\ Len(cacheFile) = 2
    /\ \E k \in DOMAIN cache : cache[k].ExpiresAt <= 0
    /\ \E k \in DOMAIN cache : cache[k].ExpiresAt > 0

\* ------------------------------------------------------- create failures

\* The user ids the reconciliation has to ask a subscription for: the
\* configured ones the list holds no enabled stream.online subscription for.
NeedsSubscription(config, list) ==
    {u \in SubscribableIDs(config) : ~HoldsEnabledOnline(list, u)}

\* Upstream holds a subscription for u that waits for its verification.
HoldsPending(list, u) ==
    \E sub \in list :
       /\ sub.Condition.broadcaster_user_id = u
       /\ sub.Status = SubscriptionStatusWebhookCallbackVerificationPending

\* C29: when, within one reconciliation that got the list, the create for a
\* streamer fails (upstream holds no new subscription for it afterwards), the
\* reconciliation still posts a create for every streamer that needs one,
\* the accepted ones are held upstream afterwards, and it returns no error:
\* the one of Server.Start goes on to serve.
C29_CreateFailureDoesNotAbort ==
    [][(/\ lastSync'.n # lastSync.n
        /\ lastSync'.listOK
        /\ \E u \in NeedsSubscription(ConfigOf(cfg'["subscriptionManager"]), subs) :
              ~HoldsPending(subs', u))
          => /\ CreatedFor(lastSync') =
                   NeedsSubscription(ConfigOf(cfg'["subscriptionManager"]), subs)
             /\ ~lastSync'.err
             /\ lastSync'.by = "start" => main' = "serving"]_vars

\* The reconciliation of Server.Start posted a create for alice and for carol;
\* one was refused, the other is held upstream, and the server serves.
C29_OneRefusedOneCreated ==
    /\ lastSync.n = 1
    /\ lastSync.by = "start"
    /\ CreatedFor(lastSync) = {"1", "3"}
    /\ ~HoldsPending(subs, "1")
    /\ HoldsPending(subs, "3")
    /\ main = "serving"

\* ------------------------------------------------------ enrichment failures

\* The EnrichPayload call made this call.
Called(enrichment, call) ==
    \E i \in 1..Len(enrichment.Calls) : enrichment.Calls[i] = call

\* The answers give a profile image URL to fetch the image from.
GivesImageURL(answers) == ~answers.User.err /\ answers.User.ProfileImageURL # ""

\* One of the enrichment steps other than the tag filter fails with these
\* answers: the user lookup, the image fetch, the channel info or the
\* follower count.
SomeStepFails(answers) ==
    \/ answers.User.err
    \/ GivesImageURL(answers) /\ answers.Image.err
    \/ answers.Channel.err
    \/ answers.Followers.err

\* C30: when an enrichment step other than the tag filter fails, the steps
\* that do not depend on it still run (the channel info after a failed user
\* lookup or image fetch, the follower count after any of them), and unless
\* the tag filter blocks the stream the handler goes on to dispatch a payload
\* that carries the fields of the steps that succeeded and keeps the others as
\* they were; the dispatch posts that payload.
C30_SoftFailuresContinue ==
    [][\A h \in Handlers :
          /\ (Leaves(h, "enrich") /\ SomeStepFails(enriched'.Answers))
                => LET answers == enriched'.Answers
                   IN  /\ Called(enriched', "GetUserInfo")
                       /\ Called(enriched', "getProfileImage") <=> GivesImageURL(answers)
                       /\ Called(enriched', "GetChannelInfo")
                       /\ ~TagFilterRejects(h, answers)
                             => /\ Called(enriched', "GetFollowersCount")
                                /\ ~enriched'.Blocked
                                /\ pc'[h] = "dispatch"
                                /\ work'[h].Payload =
                                      [work[h].Payload EXCEPT
                                         !.ViewCount = IF answers.User.err THEN @
                                                       ELSE answers.User.ViewCount,
                                         !.Image = IF GivesImageURL(answers)
                                                      /\ ~answers.Image.err
                                                   THEN ImageData(
                                                           answers.User.ProfileImageURL,
                                                           Base64(answers.Image.Bytes))
                                                   ELSE @,
                                         !.Tags = IF answers.Channel.err THEN @
                                                  ELSE answers.Channel.Tags,
                                         !.FollowersCount =
                                            IF answers.Followers.err THEN @
                                            ELSE answers.Followers.Count]
          /\ (/\ Leaves(h, "dispatch")
              /\ SomeStepFails(enriched.Answers)
              /\ ResolveWebhookURL(ConfigOf(cfg["server"]), work[h].StreamerConfig) # "")
                => /\ sent'.Payload = work[h].Payload
                   /\ posts'[EventKey(EventOf(h))] = posts[EventKey(EventOf(h))] + 1]_vars

\* A payload was dispatched after the user lookup and the follower count had
\* failed while the channel info had succeeded: it carries the channel's tags
\* and neither a view count, an image nor a follower count.
C30_PartialPayloadDispatched ==
    /\ enriched.Answers.User.err
    /\ enriched.Answers.Followers.err
    /\ ~enriched.Answers.Channel.err
    /\ enriched.Calls = <<"GetUserInfo", "GetChannelInfo", "GetFollowersCount">>
    /\ sent # NoDispatchRequest
    /\ sent.Payload.Tags = enriched.Answers.Channel.Tags
    /\ sent.Payload.ViewCount = 0
    /\ sent.Payload.FollowersCount = 0
    /\ sent.Payload.Image = NoImage
    /\ pc["h1"] = "idle"

\* ------------------------------------------------------- outbound signature

\* Dispatcher.Dispatch: the headers of the POST it sends for this request.
\* The body is json.Marshal(req.Payload).
DispatchHeaders(request) ==
    LET payloadBytes == MarshalPayload(request.Payload)
        names == {"Content-Type", "User-Agent"}
                    \cup (IF request.WebhookSecret # "" THEN {"X-Signature-256"} ELSE {})
    IN  [name \in names |->
            CASE name = "Content-Type" -> SigString("application/json", NoDigits(""))
              [] name = "User-Agent" -> SigString("itsjustintv/1.6", NoDigits(""))
              [] OTHER -> GenerateSignature(request.WebhookSecret, <<payloadBytes>>)]

\* The token and the hash a declared algorithm stands for.
AlgoToken(hashing) ==
    CASE hashing = "SHA-1" -> "sha1"
      [] hashing = "SHA-512" -> "sha512"
      [] OTHER -> "sha256"

\* C31: for every dispatch to a destination with a configured header name,
\* the POST carries that header if and only if the request's secret is not
\* empty, and its value is <algo-token>=<hex HMAC of the body> under the
\* declared algorithm.
C31_SignatureHeaderAsConfigured ==
    (sent # NoDispatchRequest /\ sent.WebhookHeader # "")
       => LET headers == DispatchHeaders(sent)
          IN  /\ sent.WebhookHeader \in DOMAIN headers <=> sent.WebhookSecret # ""
              /\ sent.WebhookHeader \in DOMAIN headers
                    => headers[sent.WebhookHeader] =
                          SigString(AlgoToken(sent.WebhookHashing) \o "=",
                                    HexEncode(Hmac(AlgoToken(sent.WebhookHashing),
                                                   sent.WebhookSecret,
                                                   <<MarshalPayload(sent.Payload)>>)))

\* The part of C31 the code keeps: the POST carries a signature header, the
\* one named X-Signature-256 with an HMAC-SHA256 of the body, if and only if
\* the request's secret is not empty.
C31_SignedIffSecret ==
    sent # NoDispatchRequest
       => LET headers == DispatchHeaders(sent)
          IN  /\ "X-Signature-256" \in DOMAIN headers <=> sent.WebhookSecret # ""
              /\ DOMAIN headers \subseteq {"Content-Type", "User-Agent", "X-Signature-256"}

\* --------------------------------------------------------- config invariants

\* The URL parses with the scheme http or https (for the URLs of the model).
IsHTTPURL(url) == url \in {"http://global/hook", "http://a/hook", "http://c/hook"}

\* The invariants on a configuration: port in 1..65535, backoff_factor above
\* 1, max_attempts at least 1, a domain when TLS is enabled, an http or https
\* URL when the global fallback is enabled, and user_id or login for every
\* streamer.
ConfigInvariants(config) ==
    /\ config.Server.Port \in 1..65535
    /\ config.Retry.BackoffFactor > 1
    /\ config.Retry.MaxAttempts >= 1
    /\ config.Server.TLS.Enabled => Len(config.Server.TLS.Domains) > 0
    /\ config.GlobalWebhook.Enabled => IsHTTPURL(config.GlobalWebhook.URL)
    /\ \A k \in DOMAIN config.Streamers :
          config.Streamers[k].UserID # "" \/ config.Streamers[k].Login # ""

\* C32: no configuration that breaks an invariant on the configuration is
\* ever the live snapshot of a component, whether it was loaded at startup or
\* by a reload.
C32_LiveSnapshotsAreValid ==
    \A c \in Components : cfg[c] # Nil => ConfigInvariants(ConfigOf(cfg[c]))

\* The part of C32 the code keeps: no snapshot with a port outside 1..65535,
\* a backoff_factor of 1 or less, max_attempts below 1, or TLS without a
\* domain is ever live.
C32_CheckedRulesHold ==
    \A c \in Components :
       cfg[c] # Nil =>
          LET config == ConfigOf(cfg[c])
          IN  /\ config.Server.Port \in 1..65535
              /\ config.Retry.BackoffFactor > 1
              /\ config.Retry.MaxAttempts >= 1
              /\ config.Server.TLS.Enabled => Len(config.Server.TLS.Domains) > 0

\* ------------------------------------------------- the signature round trip

\* What the steps of the parts exercised on their own leave alone.
serverVars == <<requestVars, subs, retryVars, lifeVars, subVars, tokenVars>>

\* The secrets a Validator is built with, and the payloads it signs.
RoundTripSecrets == {"", "test_secret_123", "other_secret"}
RoundTripPayloads == {<<"{}">>, <<"{\"test\":\"data\"}">>, <<"{\"test\":\"data\"} ">>}

\* The signatures handed to ValidateSignature after GenerateSignature returned
\* this one: itself, itself without the prefix, and different ones (the hex
\* digits of another payload or another secret, another algorithm's prefix in
\* front of the same digits, no digits).
PresentedSignatures(secret, signature) ==
    {signature,
     TrimPrefix(signature, "sha256="),
     SigString("sha1=", signature.digits),
     SigString("sha256=", HexEncode(Hmac("sha256", secret, <<"{\"challenge\":\"c\"}">>))),
     SigString("sha256=", HexEncode(Hmac("sha256", "wrong_secret", <<"{}">>))),
     SigString("sha256=", NoDigits("")),
     SigString("", NoDigits(""))}

\* NewValidator(secret) and a payload to sign.
InitSig ==
    /\ InitServer
    /\ CacheIdle /\ OutputIdle /\ WatchIdle
    /\ \E secret \in RoundTripSecrets, payload \in RoundTripPayloads :
           roundTrip = [NoRoundTrip EXCEPT !.step = "new", !.secret = secret,
                                           !.payload = payload]

\* signature := validator.GenerateSignature(payload)
RoundTripGenerate ==
    /\ roundTrip.step = "new"
    /\ roundTrip' = [roundTrip EXCEPT
                        !.step = "generated",
                        !.signature = GenerateSignature(roundTrip.secret, roundTrip.payload)]
    /\ UNCHANGED <<serverVars, cacheLockVars, outputVars, watchVars>>

\* err := validator.ValidateSignature(against, presented)
RoundTripCheck ==
    /\ roundTrip.step = "generated"
    /\ \E against \in RoundTripPayloads,
          presented \in PresentedSignatures(roundTrip.secret, roundTrip.signature) :
           roundTrip' = [roundTrip EXCEPT
                            !.step = "validated",
                            !.against = against,
                            !.presented = presented,
                            !.valid = ValidateSignature(roundTrip.secret, against, presented)]
    /\ UNCHANGED <<serverVars, cacheLockVars, outputVars, watchVars>>

NextSig == RoundTripGenerate \/ RoundTripCheck

SpecSig == InitSig /\ [][NextSig]_vars

Places(k) ==
    Cardinality({i \in 1..Len(queue) : queue[i].Payload.EventKey = k})
    + Cardinality({<<r, n>> \in BagToSet(inflight) \X (1..BagCardinality(inflight)) :
                      r.Payload.EventKey = k /\ n <= CopiesIn(r, inflight)})
    + (IF k \in delivered THEN 1 ELSE 0)
    + (IF k \in dropped THEN 1 ELSE 0)

\* The request is with a retryRequest goroutine.
InFlight(request, flying) == BagIn(request, flying)

\* The request is in this queue.
Queued(request, q) == \E i \in 1..Len(q) : q[i] = request

\* C34: each retry item is in one place only (the queue, one retryRequest
\* goroutine, or removed as delivered or dropped) and stays in one place once
\* it is a retry item; a tick hands every due item to a goroutine and takes it
\* out of the queue in the same step, and leaves in the queue every item that
\* is not yet due and not exhausted.
C34_EachItemInOnePlace ==
    /\ [](\A k \in AllKeys : Places(k) <= 1)
    /\ [][\A k \in AllKeys : Places(k) = 1 => Places(k)' = 1]_vars
    /\ [][ProcessReadyRetries =>
            \A i \in 1..Len(queue) :
                LET request == queue[i]
                    max == ConfigOf(cfg["retryManager"]).Retry.MaxAttempts
                IN  /\ (NowAfter(request.NextRetry) /\ request.Attempt <= max) =>
                           InFlight(request, inflight') /\ ~Queued(request, queue')
                    /\ (~NowAfter(request.NextRetry) /\ request.Attempt <= max) =>
                           Queued(request, queue') /\ ~InFlight(request, inflight')]_vars

\* A tick has handed one item to a goroutine and left another in the queue.
C34_OneInFlightOneQueued ==
    /\ BagCardinality(inflight) = 1
    /\ Len(queue) = 1
    /\ ~NowAfter(queue[1].NextRetry)
    /\ \A k \in AllKeys : Places(k) <= 1

\* ------------------------------------------- what Stop leaves in the state file

\* The event keys of the requests a state file holds.
PersistedKeys(file) ==
    LET loaded == loadState(file)
    IN  {loaded[i].Payload.EventKey : i \in 1..Len(loaded)}

\* The event keys of the items that are neither delivered nor abandoned: the
\* queued ones within max_attempts and the ones a retryRequest goroutine holds.
UndeliveredKeys ==
    {queue[i].Payload.EventKey :
        i \in {j \in 1..Len(queue) :
                 queue[j].Attempt <= ConfigOf(cfg["retryManager"]).Retry.MaxAttempts}}
    \cup {r.Payload.EventKey : r \in BagToSet(inflight)}

\* C35: when retry.Manager.Stop returns, the state file holds every item that
\* is neither delivered nor abandoned, the items whose retry dispatch was in
\* flight when the shutdown began included.
C35_StopPersistsUndelivered ==
    [][StopManagers => UndeliveredKeys \subseteq PersistedKeys(stateFile')]_vars

\* Stop persists every item that is in the queue when it saves.
C35_StopPersistsQueue ==
    [][StopManagers =>
          {queue[i].Payload.EventKey : i \in 1..Len(queue)} \subseteq PersistedKeys(stateFile')]_vars

\* ------------------------------------------- the lock of the cache manager

\* Manager.cleanup: the map it leaves.
cleanup(entries) ==
    [k \in {key \in DOMAIN entries : ~NowAfter(entries[key].ExpiresAt)} |-> entries[k]]

\* What the steps of the cache manager's callers leave alone.
cacheFrame ==
    <<handlerVars, cfg, subs, payloads, received, reloads, configFile, ghostVars,
      retryVars, lifeVars, subVars, tokenVars, sigVars, outputVars, watchVars>>

\* IsDuplicate: m.mutex.RLock(), which waits while a writer holds the mutex.
IsDuplicateRLock(g, k) ==
    /\ g # "cleanupRoutine"
    /\ cacheCall[g].pc = "idle"
    /\ cacheMutex.writer = Nil
    /\ cacheMutex' = [cacheMutex EXCEPT !.readers = @ \cup {g}]
    /\ cacheCall' = [cacheCall EXCEPT ![g] = [pc |-> "isDuplicate", key |-> k, dup |-> FALSE]]
    /\ UNCHANGED <<cache, cacheFrame>>

\* IsDuplicate: the lookup and the expiry test. It returns (the deferred
\* RUnlock runs) unless the entry has expired; then it goes on to delete it.
IsDuplicateLookup(g) ==
    /\ cacheCall[g].pc = "isDuplicate"
    /\ LET res == IsDuplicate(cache, cacheCall[g].key)
       IN  IF res.cache = cache
           THEN /\ cacheCall' = [cacheCall EXCEPT ![g] = [NoCall EXCEPT !.dup = res.dup]]
                /\ cacheMutex' = [cacheMutex EXCEPT !.readers = @ \ {g}]
           ELSE /\ cacheCall' = [cacheCall EXCEPT ![g].pc = "delete"]
                /\ UNCHANGED cacheMutex
    /\ UNCHANGED <<cache, cacheFrame>>

\* Another goroutine is reading or writing the map.
MapInUseByOther(g) ==
    \E o \in CacheUsers \ {g} : cacheCall[o].pc \in {"isDuplicate", "delete", "addEvent", "cleanup"}

\* IsDuplicate: delete(m.cache, eventKey) and the return. When another
\* goroutine uses the map at the same time the runtime may end the process
\* ("fatal error: concurrent map writes", "concurrent map read and map write").
IsDuplicateDelete(g, fatal) ==
    /\ cacheCall[g].pc = "delete"
    /\ fatal => MapInUseByOther(g)
    /\ IF fatal
       THEN /\ cacheCall' = [o \in CacheUsers |-> [cacheCall[o] EXCEPT !.pc = "fatal"]]
            /\ UNCHANGED <<cache, cacheMutex>>
       ELSE /\ cache' = [k \in DOMAIN cache \ {cacheCall[g].key} |-> cache[k]]
            /\ cacheCall' = [cacheCall EXCEPT ![g] = NoCall]
            /\ cacheMutex' = [cacheMutex EXCEPT !.readers = @ \ {g}]
    /\ UNCHANGED cacheFrame

\* AddEvent and cleanup: m.mutex.Lock(), which waits while anyone holds the mutex.
CacheLock(g, k) ==
    /\ cacheCall[g].pc = "idle"
    /\ cacheMutex = Unlocked
    /\ cacheMutex' = [cacheMutex EXCEPT !.writer = g]
    /\ cacheCall' = [cacheCall EXCEPT ![g] =
                        IF g = "cleanupRoutine"
                        THEN [pc |-> "cleanup", key |-> "", dup |-> FALSE]
                        ELSE [pc |-> "addEvent", key |-> k, dup |-> cacheCall[g].dup]]
    /\ UNCHANGED <<cache, cacheFrame>>

\* AddEvent: m.cache[eventKey] = entry, and the deferred Unlock.
AddEventWrite(g) ==
    /\ cacheCall[g].pc = "addEvent"
    /\ cache' = AddEvent(cache, cacheCall[g].key, TTL)
    /\ cacheCall' = [cacheCall EXCEPT ![g] = [NoCall EXCEPT !.dup = cacheCall[g].dup]]
    /\ cacheMutex' = Unlocked
    /\ UNCHANGED cacheFrame

\* cleanup: the loop over the map, and the deferred Unlock.
CleanupSweep(g) ==
    /\ cacheCall[g].pc = "cleanup"
    /\ cache' = cleanup(cache)
    /\ cacheCall' = [cacheCall EXCEPT ![g] = NoCall]
    /\ cacheMutex' = Unlocked
    /\ UNCHANGED cacheFrame

\* Two handlers and the cleanup routine use the cache while time passes.
NextCache ==
    \/ \E g \in CacheUsers, k \in AllKeys : IsDuplicateRLock(g, k)
    \/ \E g \in CacheUsers : IsDuplicateLookup(g)
    \/ \E g \in CacheUsers, fatal \in BOOLEAN : IsDuplicateDelete(g, fatal)
    \/ \E g \in CacheUsers, k \in AllKeys : CacheLock(g, k)
    \/ \E g \in CacheUsers : AddEventWrite(g)
    \/ \E g \in CacheUsers : CleanupSweep(g)
    \/ ClockTick

SpecCache == Init /\ [][NextCache]_vars

\* The goroutine is at a statement that modifies the map.
Mutating(g) == cacheCall[g].pc \in {"delete", "addEvent", "cleanup"}

\* C36: a goroutine that modifies the cache map holds the mutex for writing,
\* so no two goroutines modify the map at once and none reads it meanwhile.
C36_MutationUnderWriteLock ==
    \A g \in CacheUsers :
        Mutating(g) =>
            /\ cacheMutex.writer = g
            /\ ~MapInUseByOther(g)

\* The insert and the sweep are made under the write lock.
C36_InsertAndSweepLocked ==
    \A g \in CacheUsers :
        cacheCall[g].pc \in {"addEvent", "cleanup"} =>
            cacheMutex.writer = g /\ cacheMutex.readers = {} /\ ~MapInUseByOther(g)

\* ------------------------------------------------ what the cache answers

\* The map holds an entry for the key whose expiry instant has not passed.
Live(entries, k) == k \in DOMAIN entries /\ entries[k].ExpiresAt >= 0

\* The IsDuplicate call of g returns in this step.
IsDuplicateReturns(g) ==
    /\ cacheCall[g].pc \in {"isDuplicate", "delete"}
    /\ cacheCall'[g].pc = "idle"

MaxWrites == 5

\* The [output] sections the writer is built with.
OutputFiles == {"out0", "out1", "out2", "off"}

\* The payloads handed to WritePayload.
WrittenPayloads ==
    {WebhookPayload("alice", StreamerAlice, StreamOnlineEvent("e1", "1", "alice", "Alice", 10, 0)),
     WebhookPayload("bob", StreamerBob, StreamOnlineEvent("e3", "7", "BOB", "Bob", 30, 0))}

\* Server.New and Server.Start with the snapshot of this name.
ServerStarted(name) ==
    /\ cfg = [c \in Components |-> IF c = "watcher" THEN Nil ELSE name]
    /\ Serving(name)
    /\ sent = NoDispatchRequest
    /\ pc = [h \in Handlers |-> "idle"]
    /\ req = [h \in Handlers |-> NoRequest]
    /\ work = [h \in Handlers |-> NoWork]
    /\ cache = << >>
    /\ queue = << >>
    /\ inflight = EmptyBag
    /\ payloads = << >>
    /\ lastResp = NoResponse
    /\ received = 0
    /\ posts = [k \in AllKeys |-> 0]
    /\ enrichments = 0
    /\ enriched = NoEnrichment
    /\ window = << >>
    /\ answered = [k \in AllKeys |-> 0]
    /\ delivered = {}
    /\ dropped = {}
    /\ reloads = 0
    /\ configFile = cfg["server"]

\* NewWriter with one of the [output] sections; no output file exists.
InitOutput ==
    \E name \in OutputFiles :
        /\ ServerStarted(name)
        /\ SigIdle /\ CacheIdle /\ WatchIdle
        /\ written = << >>

\* Writer.WritePayload(payload, success, errorMsg)
WriteStep(payload, success) ==
    /\ Len(written) < MaxWrites
    /\ LET errorMsg == IF success THEN "" ELSE "unexpected status code: 500"
       IN  /\ payloads' = WritePayload(ConfigOf(cfg["outputWriter"]), payloads,
                                       payload, success, errorMsg)
           /\ written' = Append(written, OutputEntry(payload, success, errorMsg))
    /\ UNCHANGED <<handlerVars, cfg, subs, cache, received, reloads, configFile, ghostVars,
                   retryVars, lifeVars, subVars, tokenVars, sigVars, cacheLockVars, watchVars>>

NextOutput == \E payload \in WrittenPayloads, success \in BOOLEAN : WriteStep(payload, success)

SpecOutput == InitOutput /\ [][NextOutput]_vars

\* The last n entries of a sequence.
LastEntries(n, entries) ==
    IF Len(entries) <= n THEN entries
    ELSE SubSeq(entries, Len(entries) - n + 1, Len(entries))

\* C38: with output enabled the sink holds, after every WritePayload, the
\* most recent entries in the order they were written and no more than
\* max_lines of them; with output disabled it stays as it was.
C38_SinkHoldsMostRecent ==
    LET output == ConfigOf(cfg["outputWriter"]).Output
    IN  IF output.Enabled
        THEN /\ Len(payloads) <= output.MaxLines
             /\ payloads = LastEntries(output.MaxLines, written)
        ELSE payloads = << >>

\* More entries were written than max_lines allows and the sink holds two.
C38_OldestDropped ==
    /\ ConfigOf(cfg["outputWriter"]).Output.Enabled
    /\ Len(written) > ConfigOf(cfg["outputWriter"]).Output.MaxLines + 1
    /\ Len(payloads) = 2
    /\ payloads[1] # payloads[2]
    /\ written[1] # payloads[1]

\* ------------------------------------------------ reconciliation, run again

\* The user ids of the requests a syncSubscriptions call posted.
RequestedIDs(sync) == {r.Condition.broadcaster_user_id : r \in sync.creates}

\* The user ids whose createSubscription succeeded in the syncSubscriptions
\* call made last: upstream holds the stream.online subscription it asked for,
\* in the statuses given.
CreatedBy(sync, statuses) ==
    {u \in RequestedIDs(sync) :
        \E r \in sync.creates, sub \in subs :
            /\ r.Condition.broadcaster_user_id = u
            /\ sub.Type = "stream.online"
            /\ sub.Condition.broadcaster_user_id = u
            /\ sub.Transport.Callback = r.Transport.Callback
            /\ sub.Status \in statuses}

\* syncSubscriptions runs in this step with the configuration the run before
\* it had.
RunsAgain ==
    /\ lastSync'.n = lastSync.n + 1
    /\ lastSync.n > 0
    /\ cfg'["subscriptionManager"] = cfg["subscriptionManager"]
    /\ subs \subseteq subs'

\* C39: a syncSubscriptions run that follows a run with the same configuration
\* posts no createSubscription for a user id whose subscription the earlier
\* run created, whatever status upstream reports for that subscription.
C39_NoCreateForCreated ==
    [][RunsAgain =>
          RequestedIDs(lastSync') \cap
              CreatedBy(lastSync, {SubscriptionStatusEnabled,
                                   SubscriptionStatusWebhookCallbackVerificationPending}) = {}]_vars

\* Once upstream reports the subscription of the earlier run as enabled, the
\* next run posts no request for its user id.
C39_NoCreateForEnabled ==
    [][RunsAgain =>
          RequestedIDs(lastSync') \cap CreatedBy(lastSync, {SubscriptionStatusEnabled}) = {}]_vars

\* ------------------------------------------------ the configuration watcher

\* The number of change events of the configuration file.
MaxEvents == 3

\* The longest time watchLoop leaves a ready case of its select waiting, and
\* the longest time reloadConfig takes (LoadConfig and handleConfigReload
\* with its calls of the upstream API), in units of 100 ms.
MaxLag == 1
ReloadTime == 2

\* A loop that leaves a running timer alone.
KeepTimer(debounceChan) == IF debounceChan # NilChan THEN debounceChan ELSE DebounceTime

\* watchLoop on a relevant event: debounceTimer.Stop() and
\* time.NewTimer(w.debounceTime); debounceChan becomes the new timer's channel.
NewTimer(debounceChan) == DebounceTime

\* What the steps of the watcher leave alone.
watchFrame ==
    <<handlerVars, cache, payloads, received, retryVars, ghostVars, lifeVars, tokenVars,
      sigVars, cacheLockVars, outputVars>>

\* The configuration file is written: fsnotify queues an event for watchLoop.
\* The event continues the burst when the event before it is less than
\* debounceTime old, and starts a burst otherwise.
FileChanged(file) ==
    /\ reloads < MaxEvents
    /\ reloads' = reloads + 1
    /\ configFile' = file
    /\ watch' = [watch EXCEPT !.Events = @ + 1]
    /\ burst' = IF burst.sinceEvent < DebounceTime
                THEN [burst EXCEPT !.events = @ + 1, !.sinceEvent = 0]
                ELSE [burst EXCEPT !.events = 1, !.attempts = 0, !.sinceEvent = 0]
    /\ UNCHANGED <<watchFrame, cfg, subs, subVars>>

\* watchLoop: case event := <-w.watcher.Events, for an event of the file.
WatchReceive ==
    /\ watch.pc = "select"
    /\ watch.Events > 0
    /\ watch' = [watch EXCEPT !.Events = @ - 1,
                              !.debounceChan = NewTimer(watch.debounceChan),
                              !.waited = 0]
    /\ burst' = [burst EXCEPT !.sinceReceived = 0, !.unreloaded = @ + 1]
    /\ UNCHANGED <<watchFrame, cfg, subs, subVars, reloads, configFile>>

\* watchLoop: case <-debounceChan; reloadConfig begins with LoadConfig.
WatchReloadBegin ==
    /\ watch.pc = "select"
    /\ watch.debounceChan = 0
    /\ watch' = [watch EXCEPT !.pc = "reloadConfig", !.loading = configFile, !.waited = 0]
    /\ burst' = [burst EXCEPT !.attempts = @ + 1, !.unreloaded = 0]
    /\ UNCHANGED <<watchFrame, cfg, subs, subVars, reloads, configFile>>

\* reloadConfig returns; debounceTimer = nil, debounceChan = nil.
WatchReloadEnd(listOK, created) ==
    /\ watch.pc = "reloadConfig"
    /\ reloadConfig(watch.loading, listOK, created)
    /\ watch' = NoWatch
    /\ UNCHANGED <<watchFrame, burst, reloads, configFile>>

\* A case of watchLoop's select is ready.
SelectReady == watch.pc = "select" /\ (watch.Events > 0 \/ watch.debounceChan = 0)

\* 100 ms pass.
WatchTick ==
    /\ SelectReady => watch.waited < MaxLag
    /\ watch.pc = "reloadConfig" => watch.waited < ReloadTime
    /\ watch' = [watch EXCEPT
                    !.debounceChan = IF @ > 0 THEN @ - 1 ELSE @,
                    !.waited = IF SelectReady \/ watch.pc = "reloadConfig" THEN @ + 1 ELSE 0]
    /\ burst' = [burst EXCEPT
                    !.sinceEvent = IF @ < LongAgo THEN @ + 1 ELSE @,
                    !.sinceReceived = IF @ < LongAgo THEN @ + 1 ELSE @]
    /\ UNCHANGED <<watchFrame, cfg, subs, subVars, reloads, configFile>>

\* The file changes, watchLoop runs, time passes.
NextWatch ==
    \/ \E file \in {"c1", "bad"} : FileChanged(file)
    \/ WatchReceive
    \/ WatchReloadBegin
    \/ \E listOK \in BOOLEAN : WatchReloadEnd(listOK, AllUserIDs)
    \/ WatchTick

SpecWatch == Init /\ [][NextWatch]_vars

====
